---- MODULE Spec2Model ----
(***************************************************************************)
(* Model of the appo-mcp tool handlers: the issue matcher (diagnoseIssue), *)
(* the permission pattern analyzer (checkPermissions), validateSetup, the  *)
(* tool dispatcher (handleToolCall) and the resource reader                *)
(* (handleResourceRead).                                                   *)
(*                                                                         *)
(* JavaScript strings are TLA+ strings; String.prototype.includes,         *)
(* toLowerCase, startsWith and Array.prototype.join are computed character *)
(* by character with Len, SubSeq and \o.  Argument values are tagged       *)
(* records (undefined, null, boolean, number, string, object) so that      *)
(* truthiness tests, property look-ups and method calls on values of the   *)
(* wrong type behave as they do in the JavaScript source.                  *)
(*                                                                         *)
(* A TLA+ string cannot hold the grave accent.  The percent sign, which    *)
(* occurs nowhere in the sources, stands for it in every literal below.    *)
(***************************************************************************)
EXTENDS Integers, Sequences, FiniteSets, TLC

(* ------------------------------ bounds --------------------------------- *)

\* Longest symptom text, counted in phrases of SymptomFrags.
MaxSymptomFrags == 2

\* Longest code snippet, counted in statements of CodeFrags.
MaxCodeFrags == 2

\* Most calls in flight at a time.
MaxInFlight == 2

VARIABLES
  knownIssues,      \* part_000:18    module-level catalogue (an Array)
  featureApiMap,    \* check-permissions.ts:19  module-level table (an Object)
  call,             \* the request being served: tool name and argument map
  result,           \* what the call produced: a content envelope or a throw
  matchedIssues,    \* part_000:353   local of the diagnoseIssue call
  featureIssues,    \* part_000:358   local of the diagnoseIssue call
  relevantIssues,   \* part_000:366   local of the diagnoseIssue call
  analysis,         \* check-permissions.ts:73   local of the checkPermissions call
  validation,       \* check-permissions.ts:374  local of the validateSetup call
  files,            \* part_001:54    local of the scaffoldFeature call
  inflight,         \* the frames of the calls in flight when calls overlap
  completed         \* the calls answered so far when calls overlap

vars == << knownIssues, featureApiMap, call, result,
          matchedIssues, featureIssues, relevantIssues, analysis, validation, files,
          inflight, completed >>

(* ------------------------- JavaScript strings -------------------------- *)

\* String.prototype.includes(sub): sub occurs at some position of s.
includes(s, sub) ==
  \E i \in 1..(Len(s) - Len(sub) + 1) : SubSeq(s, i, i + Len(sub) - 1) = sub

\* String.prototype.startsWith(p)
startsWith(s, p) ==
  Len(p) <= Len(s) /\ SubSeq(s, 1, Len(p)) = p

\* String.prototype.charAt(i), zero-based; "" past the end.
charAt(s, i) ==
  IF i < Len(s) THEN SubSeq(s, i + 1, i + 1) ELSE ""

\* String.prototype.slice(from), zero-based, to the end of the string.
slice(s, from) ==
  SubSeq(s, from + 1, Len(s))

UpperLetters == "ABCDEFGHIJKLMNOPQRSTUVWXYZ"
LowerLetters == "abcdefghijklmnopqrstuvwxyz"

\* Letter-to-letter tables of the two case conversions (ASCII letters).
LowerOf ==
  [c \in {SubSeq(UpperLetters, k, k) : k \in 1..26} |->
     LET k == CHOOSE k \in 1..26 : SubSeq(UpperLetters, k, k) = c
     IN  SubSeq(LowerLetters, k, k)]

UpperOf ==
  [c \in {SubSeq(LowerLetters, k, k) : k \in 1..26} |->
     LET k == CHOOSE k \in 1..26 : SubSeq(LowerLetters, k, k) = c
     IN  SubSeq(UpperLetters, k, k)]

\* A string with every character in the table's domain replaced.
RECURSIVE mapString(_, _)
mapString(s, table) ==
  IF s = "" THEN ""
  ELSE LET c == SubSeq(s, 1, 1)
       IN  (IF c \in DOMAIN table THEN table[c] ELSE c)
             \o mapString(SubSeq(s, 2, Len(s)), table)

\* String.prototype.toLowerCase()
toLowerCase(s) == mapString(s, LowerOf)

\* String.prototype.toUpperCase()
toUpperCase(s) == mapString(s, UpperOf)

\* Array.prototype.join(sep) on an array of strings.
RECURSIVE join(_, _)
join(xs, sep) ==
  IF Len(xs) = 0 THEN ""
  ELSE IF Len(xs) = 1 THEN xs[1]
  ELSE xs[1] \o sep \o join(Tail(xs), sep)

\* Array.prototype.filter(p), keeping array order.

filter(xs, p(_)) == SelectSeq(xs, p)

\* Array.prototype.some(p)
some(xs, p(_)) == \E i \in 1..Len(xs) : p(xs[i])

\* Array.prototype.slice(0, n): the first n elements, fewer if the array is shorter.
sliceFirst(xs, n) ==
  SubSeq(xs, 1, IF Len(xs) < n THEN Len(xs) ELSE n)

(* -------------------------- JavaScript values -------------------------- *)

\* A value that can arrive in an argument map or come out of JSON.parse.
\* t is the type tag; s, n and o carry the payload of a string, a number or
\* boolean (0/1), and an object (own property name -> value).
NoProps == [k \in {} |-> 0]

Undefined == [t |-> "undefined", s |-> "", n |-> 0, o |-> NoProps]
Null      == [t |-> "null",      s |-> "", n |-> 0, o |-> NoProps]
Str(x)    == [t |-> "string",    s |-> x,  n |-> 0, o |-> NoProps]
Num(x)    == [t |-> "number",    s |-> "", n |-> x, o |-> NoProps]
Bool(b)   == [t |-> "boolean",   s |-> "", n |-> IF b THEN 1 ELSE 0, o |-> NoProps]
Obj(props) == [t |-> "object",   s |-> "", n |-> 0, o |-> props]

isString(v) == v.t = "string"

\* ToBoolean: what `!v`, `v ? a : b`, `v || d` and `if (v)` test.
truthy(v) ==
  CASE v.t = "undefined" -> FALSE
    [] v.t = "null"      -> FALSE
    [] v.t = "boolean"   -> v.n = 1
    [] v.t = "number"    -> v.n # 0
    [] v.t = "string"    -> v.s # ""
    [] OTHER             -> TRUE

Digits == "0123456789"

RECURSIVE natToString(_)
natToString(n) ==
  IF n < 10 THEN SubSeq(Digits, n + 1, n + 1)
  ELSE natToString(n \div 10) \o SubSeq(Digits, (n % 10) + 1, (n % 10) + 1)

\* ToString: what a template literal `${v}`, a property key and the argument
\* of String.prototype.includes are converted with.
toString(v) ==
  CASE v.t = "undefined" -> "undefined"
    [] v.t = "null"      -> "null"
    [] v.t = "boolean"   -> IF v.n = 1 THEN "true" ELSE "false"
    [] v.t = "number"    -> natToString(v.n)
    [] v.t = "string"    -> v.s
    [] OTHER             -> "[object Object]"

\* args.<field> of an argument map: undefined when the field is missing.
field(args, f) == IF f \in DOMAIN args THEN args[f] ELSE Undefined

\* What a handler produces: a content envelope with one text item, or an
\* exception (a rejected promise) carrying the error's name.
Return(text) == [kind |-> "return", text |-> text]
Throw(error) == [kind |-> "throw",  text |-> error]

(* ------------------------ part_000: the catalogue ---------------------- *)

\* The initial value of knownIssues: the Issue[] literal, entry by entry.
knownIssuesLiteral ==
  <<
    [ title |-> "SDK not working in browser",
      symptoms |-> << "not working",
                      "doesn't work",
                      "nothing happens",
                      "no response",
                      "undefined",
                      "browser",
                      "web" >>,
      causes |-> << "The SDK is designed for React Native WebViews and provides graceful fallbacks in browsers",
                    "Native features require the host app to be running" >>,
      solutions |-> << "Check %appo.isNative% before using native-only features",
                       "Implement fallback UI for web browsers",
                       "Test in the actual React Native WebView environment" >>,
      codeExample |->
        "const appo = getAppo();\n" \o
        "\n" \o
        "if (appo.isNative) {\n" \o
        "  // Full native functionality available\n" \o
        "  const token = await appo.push.getToken();\n" \o
        "} else {\n" \o
        "  // Running in browser - show fallback\n" \o
        "  console.log('Push notifications require the native app');\n" \o
        "}"
    ],
    [ title |-> "Permission always denied",
      symptoms |-> << "permission denied",
                      "always denied",
                      "can't get permission",
                      "requestPermission returns denied" >>,
      causes |-> << "Running in a browser (fallback returns 'denied')",
                    "User previously denied permission",
                    "Permission not configured in app.json/Info.plist" >>,
      solutions |-> << "Check if running in native context with %appo.isNative%",
                       "For iOS: Add usage description in Info.plist",
                       "For Android: Ensure permissions in AndroidManifest.xml",
                       "Guide users to enable permissions in device Settings" >>,
      codeExample |->
        "const status = await appo.push.requestPermission();\n" \o
        "\n" \o
        "if (status === 'denied') {\n" \o
        "  // Check if we're in native\n" \o
        "  if (!appo.isNative) {\n" \o
        "    console.log('Native app required for push notifications');\n" \o
        "  } else {\n" \o
        "    // User denied - prompt to enable in Settings\n" \o
        "    alert('Please enable notifications in your device Settings');\n" \o
        "  }\n" \o
        "}"
    ],
    [ title |-> "Push token is null",
      symptoms |-> << "token null",
                      "token is null",
                      "getToken returns null",
                      "no push token",
                      "undefined token" >>,
      causes |-> << "Permission not granted before requesting token",
                    "Running in browser (fallback returns null)",
                    "Push notification service not configured",
                    "Network connectivity issues" >>,
      solutions |-> << "Always request permission before getting token",
                       "Verify Expo push notification setup",
                       "Check network connectivity",
                       "Ensure %appo.isNative% is true" >>,
      codeExample |->
        "async function getPushToken() {\n" \o
        "  const appo = getAppo();\n" \o
        "\n" \o
        "  if (!appo.isNative) {\n" \o
        "    console.log('Push requires native app');\n" \o
        "    return null;\n" \o
        "  }\n" \o
        "\n" \o
        "  const permission = await appo.push.requestPermission();\n" \o
        "  if (permission !== 'granted') {\n" \o
        "    console.log('Permission not granted');\n" \o
        "    return null;\n" \o
        "  }\n" \o
        "\n" \o
        "  const token = await appo.push.getToken();\n" \o
        "  if (!token) {\n" \o
        "    console.log('Could not get push token - check Expo config');\n" \o
        "  }\n" \o
        "\n" \o
        "  return token;\n" \o
        "}"
    ],
    [ title |-> "Biometrics not available",
      symptoms |-> << "biometrics not available",
                      "face id not working",
                      "touch id not working",
                      "isAvailable returns false" >>,
      causes |-> << "Device doesn't have biometric hardware",
                    "Biometrics not enrolled on device",
                    "Running in browser/simulator",
                    "Permission not granted in app settings" >>,
      solutions |-> << "Check %isAvailable()% before offering biometric auth",
                       "Test on physical device with enrolled biometrics",
                       "Provide password/PIN fallback" >>,
      codeExample |->
        "async function setupBiometrics() {\n" \o
        "  const appo = getAppo();\n" \o
        "\n" \o
        "  const available = await appo.biometrics.isAvailable();\n" \o
        "\n" \o
        "  if (!available) {\n" \o
        "    // Fallback to PIN or password\n" \o
        "    return { method: 'password' };\n" \o
        "  }\n" \o
        "\n" \o
        "  return { method: 'biometrics' };\n" \o
        "}"
    ],
    [ title |-> "Camera not capturing",
      symptoms |-> << "camera not working",
                      "takePicture returns null",
                      "camera black screen",
                      "no photo" >>,
      causes |-> << "Permission not granted",
                    "Camera in use by another app",
                    "Running in browser",
                    "User cancelled capture" >>,
      solutions |-> << "Request and verify camera permission first",
                       "Handle null return from takePicture()",
                       "Check %appo.isNative% before camera operations" >>,
      codeExample |->
        "async function capturePhoto() {\n" \o
        "  const appo = getAppo();\n" \o
        "\n" \o
        "  if (!appo.isNative) {\n" \o
        "    // Could use file input fallback\n" \o
        "    return null;\n" \o
        "  }\n" \o
        "\n" \o
        "  const permission = await appo.camera.requestPermission();\n" \o
        "  if (permission !== 'granted') {\n" \o
        "    console.log('Camera permission required');\n" \o
        "    return null;\n" \o
        "  }\n" \o
        "\n" \o
        "  const photo = await appo.camera.takePicture();\n" \o
        "  if (!photo) {\n" \o
        "    console.log('Photo capture cancelled or failed');\n" \o
        "    return null;\n" \o
        "  }\n" \o
        "\n" \o
        "  return photo;\n" \o
        "}"
    ],
    [ title |-> "Location inaccurate or slow",
      symptoms |-> << "location inaccurate",
                      "wrong location",
                      "location slow",
                      "takes long time",
                      "accuracy" >>,
      causes |-> << "GPS not available (indoors)",
                    "Low accuracy mode enabled",
                    "Device location services disabled" >>,
      solutions |-> << "Check the accuracy property in the returned position",
                       "Request high accuracy if needed",
                       "Handle timeout gracefully",
                       "Show loading state to user" >>,
      codeExample |->
        "async function getLocation() {\n" \o
        "  const appo = getAppo();\n" \o
        "\n" \o
        "  const position = await appo.location.getCurrentPosition();\n" \o
        "\n" \o
        "  if (position) {\n" \o
        "    if (position.accuracy > 100) {\n" \o
        "      console.log('Low accuracy:', position.accuracy, 'meters');\n" \o
        "      // Consider retrying or warning user\n" \o
        "    }\n" \o
        "    return position;\n" \o
        "  }\n" \o
        "\n" \o
        "  return null;\n" \o
        "}"
    ],
    [ title |-> "Storage not persisting",
      symptoms |-> << "storage not saving",
                      "data lost",
                      "storage cleared",
                      "values disappear" >>,
      causes |-> << "Using browser localStorage (cleared on app reinstall)",
                    "Async timing issues",
                    "Storage quota exceeded" >>,
      solutions |-> << "Verify storage key consistency",
                       "Await storage operations",
                       "Handle storage errors" >>,
      codeExample |->
        "async function saveSettings(settings: object) {\n" \o
        "  const appo = getAppo();\n" \o
        "\n" \o
        "  try {\n" \o
        "    await appo.storage.set('user-settings', JSON.stringify(settings));\n" \o
        "    console.log('Settings saved');\n" \o
        "  } catch (error) {\n" \o
        "    console.error('Failed to save settings:', error);\n" \o
        "  }\n" \o
        "}\n" \o
        "\n" \o
        "async function loadSettings() {\n" \o
        "  const appo = getAppo();\n" \o
        "\n" \o
        "  const stored = await appo.storage.get('user-settings');\n" \o
        "  if (stored) {\n" \o
        "    return JSON.parse(stored);\n" \o
        "  }\n" \o
        "  return null;\n" \o
        "}"
    ],
    [ title |-> "Network status incorrect",
      symptoms |-> << "network status wrong",
                      "shows offline when online",
                      "network not updating" >>,
      causes |-> << "Browser fallback using navigator.onLine (limited accuracy)",
                    "Network change listener not set up" >>,
      solutions |-> << "Use onChange listener for real-time updates",
                       "Don't rely solely on initial status",
                       "Test actual network requests as backup" >>,
      codeExample |->
        "import { useEffect, useState } from 'react';\n" \o
        "import { getAppo } from '@appolabs/appo';\n" \o
        "\n" \o
        "function useNetworkStatus() {\n" \o
        "  const [isOnline, setIsOnline] = useState(true);\n" \o
        "  const appo = getAppo();\n" \o
        "\n" \o
        "  useEffect(() => {\n" \o
        "    // Initial status\n" \o
        "    appo.network.getStatus().then(s => setIsOnline(s?.isConnected ?? true));\n" \o
        "\n" \o
        "    // Listen for changes\n" \o
        "    return appo.network.onChange(status => {\n" \o
        "      setIsOnline(status?.isConnected ?? true);\n" \o
        "    });\n" \o
        "  }, []);\n" \o
        "\n" \o
        "  return isOnline;\n" \o
        "}"
    ],
    [ title |-> "Types not working",
      symptoms |-> << "typescript error",
                      "type error",
                      "types not found",
                      "cannot find module" >>,
      causes |-> << "Package not properly installed",
                    "TypeScript configuration issues",
                    "IDE cache needs refresh" >>,
      solutions |-> << "Reinstall the package: %pnpm add @appolabs/appo%",
                       "Ensure moduleResolution is 'bundler' or 'node16'",
                       "Restart your IDE/TypeScript server" >>,
      codeExample |->
        "// Make sure to import types explicitly if needed\n" \o
        "import { getAppo } from '@appolabs/appo';\n" \o
        "import type { PermissionStatus, PushMessage } from '@appolabs/appo';\n" \o
        "\n" \o
        "const appo = getAppo();\n" \o
        "// appo should now have full type inference"
    ]
  >>

(* ---------------------- part_000: diagnoseIssue ------------------------ *)

SymptomPrompt ==
  "Please describe the issue you're experiencing in the %symptom% parameter."

\* A guard that lets the empty string through.
symptomMissingUndefinedOnly(symptom) == symptom.t = "undefined"

\* part_000:340  !symptom
symptomMissing(symptom) == ~truthy(symptom)

\* A matcher that compares the keywords as stored.
matchedIssuesStoredKeywords(symptom) ==
  LET searchTerms == toLowerCase(symptom)
  IN  filter(knownIssues,
             LAMBDA issue :
               some(issue.symptoms,
                    LAMBDA s : includes(searchTerms, s)))

\* part_000:352-355  knownIssues.filter(issue => issue.symptoms.some(...))
matchedIssuesOf(symptom) ==
  LET searchTerms == toLowerCase(symptom)
  IN  filter(knownIssues,
             LAMBDA issue :
               some(issue.symptoms,
                    LAMBDA s : includes(searchTerms, toLowerCase(s))))

\* A filter that takes the entries it selects out of the array.
catalogueWithoutMatched(catalogue, matched) ==
  filter(catalogue, LAMBDA issue : \A i \in 1..Len(matched) : matched[i] # issue)

\* A filter that works in place: the array keeps the selected entries only.
catalogueFilteredInPlace(catalogue, matched) == matched

\* part_000:353  Array.prototype.filter leaves knownIssues as it was
catalogueAfterFilter(catalogue, matched) == catalogue

\* A narrowing that ignores the hint.
featureIssuesUnnarrowed(matched, feature) == matched

\* part_000:358-364  the feature hint narrows the matched entries
featureIssuesOf(matched, feature) ==
  IF truthy(feature)
    THEN filter(matched,
                LAMBDA issue :
                  \/ includes(toLowerCase(issue.title), toString(feature))
                  \/ some(issue.symptoms,
                          LAMBDA s : includes(s, toString(feature))))
    ELSE matched

\* A selection that trusts the narrowing even when it is empty.
relevantIssuesNoFallback(narrowed, matched) == narrowed

\* part_000:366
relevantIssuesOf(narrowed, matched) ==
  IF Len(narrowed) > 0 THEN narrowed ELSE matched

\* A rendering that drops the items of a list.
bulletsNone(xs) == << >>

\* sections.push(%- ${x}%) for each x of a list
bullets(xs) == [i \in 1..Len(xs) |-> "- " \o xs[i]]

\* A rendering that leaves the title line out.
issueSectionsUntitled(issue) ==
  << "**Possible Causes:**" >> \o bullets(issue.causes) \o << "" >>
  \o << "**Solutions:**" >> \o bullets(issue.solutions) \o << "" >>
  \o (IF issue.codeExample # ""
        THEN << "**Example Fix:**", "%%%tsx", issue.codeExample, "%%%", "" >>
        ELSE << >>)

\* part_000:396-412  the sections pushed for one catalogue entry
issueSections(issue) ==
  << "### " \o issue.title \o "\n" >>
  \o << "**Possible Causes:**" >> \o bullets(issue.causes) \o << "" >>
  \o << "**Solutions:**" >> \o bullets(issue.solutions) \o << "" >>
  \o (IF issue.codeExample # ""
        THEN << "**Example Fix:**", "%%%tsx", issue.codeExample, "%%%", "" >>
        ELSE << >>)

RECURSIVE allIssueSections(_)
allIssueSections(issues) ==
  IF Len(issues) = 0 THEN << >>
  ELSE issueSections(issues[1]) \o allIssueSections(Tail(issues))

MaxShown == 3

ClosingNote ==
  "\nIf none of these solutions work, please provide more details about your setup (package versions, platform, full error message)."

\* A report that renders every entry it is given.
buildDiagnosisOutputUncapped(issues, platform) ==
  LET sections ==
        << "## Diagnosis Results\n" >>
        \o (IF truthy(platform)
              THEN << "Platform: **" \o toString(platform) \o "**\n" >>
              ELSE << >>)
        \o allIssueSections(issues)
        \o << "---" >>
        \o << ClosingNote >>
  IN  join(sections, "\n")

\* part_000:386-421
buildDiagnosisOutput(issues, platform) ==
  LET sections ==
        << "## Diagnosis Results\n" >>
        \o (IF truthy(platform)
              THEN << "Platform: **" \o toString(platform) \o "**\n" >>
              ELSE << >>)
        \o allIssueSections(sliceFirst(issues, MaxShown))
        \o << "---" >>
        \o << ClosingNote >>
  IN  join(sections, "\n")

\* A checklist that lost its last step.
TroubleshootingStepsShort ==
  << "1. **Check native context:** Verify %appo.isNative% is true",
     "2. **Check permissions:** Ensure required permissions are granted",
     "3. **Check installation:** Verify %@appolabs/appo% is properly installed",
     "4. **Check console:** Look for errors in the console/logs" >>

TroubleshootingSteps ==
  << "1. **Check native context:** Verify %appo.isNative% is true",
     "2. **Check permissions:** Ensure required permissions are granted",
     "3. **Check installation:** Verify %@appolabs/appo% is properly installed",
     "4. **Check console:** Look for errors in the console/logs",
     "5. **Test on device:** Some features only work on physical devices" >>

DebugCode ==
  << "%%%tsx",
     "import { getAppo } from '@appolabs/appo';",
     "",
     "function debugSdk() {",
     "  const appo = getAppo();",
     "  console.log('SDK Version:', appo.version);",
     "  console.log('Is Native:', appo.isNative);",
     "  appo.device.getInfo().then(info => {",
     "    console.log('Device:', info);",
     "  });",
     "}",
     "%%%" >>

MoreDetailsNote ==
  "Please provide more details (error messages, code snippets) for a more specific diagnosis."

\* A generic report that leaves the error line out.
buildGenericDiagnosisNoError(symptom, feature, errorMessage, platform) ==
  LET sections ==
        << "## Diagnosis\n" >>
        \o << "**Symptom:** " \o symptom \o "\n" >>
        \o (IF truthy(feature) THEN << "**Feature:** " \o toString(feature) >> ELSE << >>)
        \o (IF truthy(platform) THEN << "**Platform:** " \o toString(platform) >> ELSE << >>)
        \o << "" >>
        \o << "### General Troubleshooting Steps\n" >>
        \o TroubleshootingSteps
        \o << "" >>
        \o << "### Debug Code\n" >>
        \o DebugCode
        \o << "" >>
        \o << MoreDetailsNote >>
  IN  join(sections, "\n")

\* part_000:423-467
buildGenericDiagnosis(symptom, feature, errorMessage, platform) ==
  LET sections ==
        << "## Diagnosis\n" >>
        \o << "**Symptom:** " \o symptom \o "\n" >>
        \o (IF truthy(feature) THEN << "**Feature:** " \o toString(feature) >> ELSE << >>)
        \o (IF truthy(errorMessage) THEN << "**Error:** " \o toString(errorMessage) >> ELSE << >>)
        \o (IF truthy(platform) THEN << "**Platform:** " \o toString(platform) >> ELSE << >>)
        \o << "" >>
        \o << "### General Troubleshooting Steps\n" >>
        \o TroubleshootingSteps
        \o << "" >>
        \o << "### Debug Code\n" >>
        \o DebugCode
        \o << "" >>
        \o << MoreDetailsNote >>
  IN  join(sections, "\n")

\* part_000:335-384  one run of diagnoseIssue: what it returns (out) and the
\* values its three locals hold when it does (empty when it returns or throws
\* before line 353).
diagnoseRun(args) ==
  LET symptom == field(args, "symptom")
      feature == field(args, "feature")
      errorMessage == field(args, "errorMessage")
      platform == field(args, "platform")
      matched == matchedIssuesOf(symptom.s)
      narrowed == featureIssuesOf(matched, feature)
      relevant == relevantIssuesOf(narrowed, matched)
      early(o) == [ out |-> o, matchedIssues |-> << >>,
                    featureIssues |-> << >>, relevantIssues |-> << >> ]
      late(o) == [ out |-> o, matchedIssues |-> matched,
                   featureIssues |-> narrowed, relevantIssues |-> relevant ]
  IN  IF symptomMissing(symptom)
        THEN early(Return(SymptomPrompt))
      ELSE IF ~isString(symptom)
        THEN early(Throw("TypeError"))   \* symptom.toLowerCase is not a function
      ELSE IF Len(relevant) = 0
        THEN late(Return(buildGenericDiagnosis(symptom.s, feature, errorMessage, platform)))
      ELSE late(Return(buildDiagnosisOutput(relevant, platform)))

diagnoseIssue(args) == diagnoseRun(args).out

(* ------------------ check-permissions.ts: checkPermissions ------------- *)

\* The initial value of featureApiMap.  An object literal keeps its keys in
\* insertion order, so the table is a list of keyed entries.
featureApiMapLiteral ==
  << [ key |-> "push",     api |-> "appo.push",     protectedMethods |-> << "getToken" >> ],
     [ key |-> "camera",   api |-> "appo.camera",   protectedMethods |-> << "takePicture" >> ],
     [ key |-> "location", api |-> "appo.location", protectedMethods |-> << "getCurrentPosition" >> ] >>

\* Names every object literal inherits from Object.prototype.
ObjectPrototypeKeys ==
  { "constructor", "toString", "toLocaleString", "valueOf", "hasOwnProperty",
    "isPrototypeOf", "propertyIsEnumerable", "__proto__",
    "__defineGetter__", "__defineSetter__", "__lookupGetter__", "__lookupSetter__" }

\* Object.keys(table)
keysOf(table) == [i \in 1..Len(table) |-> table[i].key]

hasOwn(table, key) == \E i \in 1..Len(table) : table[i].key = key

ownEntry(table, key) == table[CHOOSE i \in 1..Len(table) : table[i].key = key]

\* table[key] on an object literal: "own" for an entry of the literal,
\* "inherited" for a member of Object.prototype, "undefined" otherwise.
lookupKind(table, key) ==
  IF hasOwn(table, toString(key)) THEN "own"
  ELSE IF toString(key) \in ObjectPrototypeKeys THEN "inherited"
  ELSE "undefined"

MissingArgsMessage ==
  "Please provide both %code% and %feature% (push, camera, or location) parameters."

\* check-permissions.ts:55
invalidFeatureMessage ==
  "Invalid feature. Permission-required features are: " \o join(keysOf(featureApiMap), ", ")

\* check-permissions.ts:73-82  the record every analysis starts from
emptyAnalysis ==
  [ hasPermissionRequest |-> FALSE,
    hasStatusCheck |-> FALSE,
    hasDeniedHandling |-> FALSE,
    hasUndeterminedHandling |-> FALSE,
    hasErrorHandling |-> FALSE,
    hasUserExplanation |-> FALSE,
    issues |-> << >>,
    suggestions |-> << >> ]

\* check-permissions.ts:86-138  the six flags
hasPermissionRequestIn(code) == includes(code, "requestPermission")

hasStatusCheckIn(code) ==
  \/ includes(code, "permission")
  \/ includes(code, "status")
  \/ includes(code, "'granted'")
  \/ includes(code, "\"granted\"")

\* A denied check that knows the single-quoted literal only.
hasDeniedHandlingSingleQuoted(code) ==
  \/ includes(code, "'denied'")
  \/ includes(code, "=== 'denied'")

hasDeniedHandlingIn(code) ==
  \/ includes(code, "'denied'")
  \/ includes(code, "\"denied\"")
  \/ includes(code, "=== 'denied'")
  \/ includes(code, "=== \"denied\"")

hasUndeterminedHandlingIn(code) ==
  \/ includes(code, "'undetermined'")
  \/ includes(code, "\"undetermined\"")
  \/ includes(code, "null")

hasErrorHandlingIn(code) == includes(code, "try") /\ includes(code, "catch")

hasUserExplanationIn(code) ==
  \/ includes(code, "modal")
  \/ includes(code, "Modal")
  \/ includes(code, "dialog")
  \/ includes(code, "Dialog")
  \/ includes(code, "alert")
  \/ includes(code, "confirm")
  \/ includes(code, "explanation")
  \/ includes(code, "why")
  \/ includes(code, "permission needed")

\* check-permissions.ts:143-145
protectedMethodIssue(method) ==
  "Protected method %" \o method \o "% is used without requesting permission first."

\* check-permissions.ts:150-152
noRequestIssue(feature) ==
  "No %requestPermission()% call found for " \o feature \o "."

\* check-permissions.ts:157
NoDeniedIssue ==
  "No handling for 'denied' permission status. Users who deny permission won't see helpful feedback."

ExplainSuggestion ==
  "Consider explaining to users WHY you need this permission before requesting it. This improves acceptance rates."

TryCatchSuggestion ==
  "Add try/catch blocks to handle potential errors during permission requests."

UndeterminedSuggestion ==
  "Handle the 'undetermined' state - this is the initial state before the user makes a choice."

\* A loop that looks for the permission request before the call only.
protectedIssuesPositional(code, methods) ==
  LET unprotected(method) ==
        \E i \in 1..(Len(code) - Len(method) - 1) :
          /\ SubSeq(code, i, i + Len(method) + 1) = "." \o method \o "("
          /\ ~includes(SubSeq(code, 1, i - 1), "requestPermission")
      found == SelectSeq(methods, unprotected)
  IN  [i \in 1..Len(found) |-> protectedMethodIssue(found[i])]

\* A loop that reports a protected method only next to a permission request.
protectedIssuesInverted(code, methods) ==
  IF includes(code, "requestPermission")
    THEN [i \in 1..Len(methods) |-> protectedMethodIssue(methods[i])]
    ELSE << >>

\* check-permissions.ts:141-147  the loop over protectedMethods
RECURSIVE protectedIssues(_, _)
protectedIssues(code, methods) ==
  IF Len(methods) = 0 THEN << >>
  ELSE (IF includes(code, "." \o methods[1] \o "(") /\ ~includes(code, "requestPermission")
          THEN << protectedMethodIssue(methods[1]) >>
          ELSE << >>)
       \o protectedIssues(code, Tail(methods))

\* An issues list that reports the missing denied handling first.
issuesOfDeniedFirst(code, feature, methods, flags) ==
  (IF ~flags.hasDeniedHandling THEN << NoDeniedIssue >> ELSE << >>)
  \o protectedIssues(code, methods)
  \o (IF ~flags.hasPermissionRequest THEN << noRequestIssue(feature) >> ELSE << >>)

\* check-permissions.ts:140-159  the issues list, in push order
issuesOf(code, feature, methods, flags) ==
  protectedIssues(code, methods)
  \o (IF ~flags.hasPermissionRequest THEN << noRequestIssue(feature) >> ELSE << >>)
  \o (IF ~flags.hasDeniedHandling THEN << NoDeniedIssue >> ELSE << >>)

\* A suggestions list that stops at the first suggestion it makes.
suggestionsFirstOnly(flags) ==
  IF ~flags.hasUserExplanation THEN << ExplainSuggestion >>
  ELSE IF ~flags.hasErrorHandling THEN << TryCatchSuggestion >>
  ELSE IF ~flags.hasUndeterminedHandling THEN << UndeterminedSuggestion >>
  ELSE << >>

\* check-permissions.ts:161-178  the suggestions list, in push order
suggestionsOf(flags) ==
  (IF ~flags.hasUserExplanation THEN << ExplainSuggestion >> ELSE << >>)
  \o (IF ~flags.hasErrorHandling THEN << TryCatchSuggestion >> ELSE << >>)
  \o (IF ~flags.hasUndeterminedHandling THEN << UndeterminedSuggestion >> ELSE << >>)

\* Flags where handling denied counts as handling undetermined too.
withFlagsCoupled(a, code) ==
  [ a EXCEPT
      !.hasPermissionRequest = @ \/ hasPermissionRequestIn(code),
      !.hasStatusCheck = @ \/ hasStatusCheckIn(code),
      !.hasDeniedHandling = @ \/ hasDeniedHandlingIn(code),
      !.hasUndeterminedHandling =
          @ \/ hasUndeterminedHandlingIn(code) \/ hasDeniedHandlingIn(code),
      !.hasErrorHandling = @ \/ hasErrorHandlingIn(code),
      !.hasUserExplanation = @ \/ hasUserExplanationIn(code) ]

\* check-permissions.ts:86-138  each flag is set when its test succeeds
withFlags(a, code) ==
  [ a EXCEPT
      !.hasPermissionRequest = @ \/ hasPermissionRequestIn(code),
      !.hasStatusCheck = @ \/ hasStatusCheckIn(code),
      !.hasDeniedHandling = @ \/ hasDeniedHandlingIn(code),
      !.hasUndeterminedHandling = @ \/ hasUndeterminedHandlingIn(code),
      !.hasErrorHandling = @ \/ hasErrorHandlingIn(code),
      !.hasUserExplanation = @ \/ hasUserExplanationIn(code) ]

\* check-permissions.ts:140-178  the issues and suggestions pushed onto the
\* lists of the analysis, given the protected methods of the feature
withFindings(a, code, feature, methods) ==
  [ a EXCEPT
      !.issues = @ \o issuesOf(code, feature, methods, a),
      !.suggestions = @ \o suggestionsOf(a) ]

\* check-permissions.ts:69-181.  code and feature are argument values that
\* passed the guards of lines 39 and 50.  The result is the analysis record,
\* or a TypeError: code.includes is not a function when code is not a string
\* (line 87), protectedMethods is not iterable when featureApiMap[feature] is
\* an inherited member (lines 84 and 141).
analyzePermissionPatterns(code, feature) ==
  IF ~isString(code)
    THEN [ thrown |-> TRUE, analysis |-> emptyAnalysis ]
  ELSE IF lookupKind(featureApiMap, feature) # "own"
    THEN [ thrown |-> TRUE, analysis |-> withFlags(emptyAnalysis, code.s) ]
  ELSE LET methods == ownEntry(featureApiMap, toString(feature)).protectedMethods
       IN  [ thrown |-> FALSE,
             analysis |->
               withFindings(withFlags(emptyAnalysis, code.s),
                            code.s, toString(feature), methods) ]
\* check-permissions.ts:237-351  the patterns table of getRecommendedPattern
patterns ==
  <<
    [ key |-> "push",
      value |->
        "import { useState } from 'react';\n" \o
        "import { getAppo, type PermissionStatus } from '@appolabs/appo';\n" \o
        "\n" \o
        "function PushNotificationSetup() {\n" \o
        "  const [status, setStatus] = useState<PermissionStatus | null>(null);\n" \o
        "  const [showExplanation, setShowExplanation] = useState(true);\n" \o
        "  const appo = getAppo();\n" \o
        "\n" \o
        "  const handleEnable = async () => {\n" \o
        "    try {\n" \o
        "      const result = await appo.push.requestPermission();\n" \o
        "      setStatus(result);\n" \o
        "\n" \o
        "      if (result === 'granted') {\n" \o
        "        const token = await appo.push.getToken();\n" \o
        "        // Send token to your backend\n" \o
        "      }\n" \o
        "    } catch (error) {\n" \o
        "      console.error('Push permission error:', error);\n" \o
        "    }\n" \o
        "  };\n" \o
        "\n" \o
        "  if (status === 'denied') {\n" \o
        "    return <p>Push notifications are disabled. Enable them in Settings.</p>;\n" \o
        "  }\n" \o
        "\n" \o
        "  if (showExplanation) {\n" \o
        "    return (\n" \o
        "      <div>\n" \o
        "        <p>We'll send you updates about your orders and exclusive offers.</p>\n" \o
        "        <button onClick={() => { setShowExplanation(false); handleEnable(); }}>\n" \o
        "          Enable Notifications\n" \o
        "        </button>\n" \o
        "      </div>\n" \o
        "    );\n" \o
        "  }\n" \o
        "\n" \o
        "  return null;\n" \o
        "}"
    ],
    [ key |-> "camera",
      value |->
        "import { useState } from 'react';\n" \o
        "import { getAppo, type PermissionStatus } from '@appolabs/appo';\n" \o
        "\n" \o
        "function CameraCapture() {\n" \o
        "  const [status, setStatus] = useState<PermissionStatus | null>(null);\n" \o
        "  const appo = getAppo();\n" \o
        "\n" \o
        "  const handleCapture = async () => {\n" \o
        "    try {\n" \o
        "      // Request permission first\n" \o
        "      if (status !== 'granted') {\n" \o
        "        const result = await appo.camera.requestPermission();\n" \o
        "        setStatus(result);\n" \o
        "        if (result !== 'granted') return;\n" \o
        "      }\n" \o
        "\n" \o
        "      // Now safe to capture\n" \o
        "      const photo = await appo.camera.takePicture();\n" \o
        "      if (photo) {\n" \o
        "        // Handle photo\n" \o
        "      }\n" \o
        "    } catch (error) {\n" \o
        "      console.error('Camera error:', error);\n" \o
        "    }\n" \o
        "  };\n" \o
        "\n" \o
        "  if (status === 'denied') {\n" \o
        "    return <p>Camera access denied. Please enable in Settings.</p>;\n" \o
        "  }\n" \o
        "\n" \o
        "  return <button onClick={handleCapture}>Take Photo</button>;\n" \o
        "}"
    ],
    [ key |-> "location",
      value |->
        "import { useState } from 'react';\n" \o
        "import { getAppo, type PermissionStatus } from '@appolabs/appo';\n" \o
        "\n" \o
        "function LocationAccess() {\n" \o
        "  const [status, setStatus] = useState<PermissionStatus | null>(null);\n" \o
        "  const [showRationale, setShowRationale] = useState(true);\n" \o
        "  const appo = getAppo();\n" \o
        "\n" \o
        "  const handleGetLocation = async () => {\n" \o
        "    try {\n" \o
        "      if (status !== 'granted') {\n" \o
        "        const result = await appo.location.requestPermission();\n" \o
        "        setStatus(result);\n" \o
        "        if (result !== 'granted') return;\n" \o
        "      }\n" \o
        "\n" \o
        "      const position = await appo.location.getCurrentPosition();\n" \o
        "      if (position) {\n" \o
        "        // Use location\n" \o
        "      }\n" \o
        "    } catch (error) {\n" \o
        "      console.error('Location error:', error);\n" \o
        "    }\n" \o
        "  };\n" \o
        "\n" \o
        "  if (status === 'denied') {\n" \o
        "    return <p>Location access denied. Enable in Settings to use this feature.</p>;\n" \o
        "  }\n" \o
        "\n" \o
        "  if (showRationale) {\n" \o
        "    return (\n" \o
        "      <div>\n" \o
        "        <p>We need your location to find nearby stores.</p>\n" \o
        "        <button onClick={() => { setShowRationale(false); handleGetLocation(); }}>\n" \o
        "          Share Location\n" \o
        "        </button>\n" \o
        "      </div>\n" \o
        "    );\n" \o
        "  }\n" \o
        "\n" \o
        "  return null;\n" \o
        "}"
    ]
  >>

\* check-permissions.ts:236-354
getRecommendedPattern(feature) ==
  patterns[CHOOSE i \in 1..Len(patterns) : patterns[i].key = feature].value

\* The two glyphs of check-permissions.ts:216 and 223 (a cross mark and a
\* light bulb) are outside ASCII; these stand for them.
CrossMark == "(x)"
BulbMark == "(i)"

\* A checklist where every item is ticked.
tickAlways(flag) == "x"

\* check-permissions.ts:194-209  the mark of a checklist item
tick(flag) == IF flag THEN "x" ELSE " "

\* sections.push(`- ${mark} ${x}`) for each x of a list
marked(mark, xs) == [i \in 1..Len(xs) |-> "- " \o mark \o " " \o xs[i]]

\* check-permissions.ts:183-234
buildAnalysisOutput(feature, a) ==
  LET sections ==
        << "## " \o toUpperCase(charAt(feature, 0)) \o slice(feature, 1) \o " Permission Analysis\n" >>
        \o << "### Permission Flow Checklist\n" >>
        \o << "- [" \o tick(a.hasPermissionRequest) \o "] Calls %requestPermission()%" >>
        \o << "- [" \o tick(a.hasStatusCheck) \o "] Checks permission status" >>
        \o << "- [" \o tick(a.hasDeniedHandling) \o "] Handles 'denied' status" >>
        \o << "- [" \o tick(a.hasUndeterminedHandling) \o "] Handles initial/undetermined state" >>
        \o << "- [" \o tick(a.hasErrorHandling) \o "] Has error handling" >>
        \o << "- [" \o tick(a.hasUserExplanation) \o "] Explains why permission is needed" >>
        \o << "" >>
        \o (IF Len(a.issues) > 0
              THEN << "### Issues Found\n" >> \o marked(CrossMark, a.issues) \o << "" >>
              ELSE << >>)
        \o (IF Len(a.suggestions) > 0
              THEN << "### Suggestions\n" >> \o marked(BulbMark, a.suggestions) \o << "" >>
              ELSE << >>)
        \o << "### Recommended Pattern\n" >>
        \o << "%%%tsx" >>
        \o << getRecommendedPattern(feature) >>
        \o << "%%%" >>
  IN  join(sections, "\n")

\* A run that looks the feature up before it looks for missing arguments.
checkPermissionsRunFeatureFirst(args) ==
  LET code == field(args, "code")
      feature == field(args, "feature")
      r == analyzePermissionPatterns(code, feature)
  IN  IF lookupKind(featureApiMap, feature) = "undefined"
        THEN [ out |-> Return(invalidFeatureMessage), analysis |-> emptyAnalysis ]
      ELSE IF ~truthy(code) \/ ~truthy(feature)
        THEN [ out |-> Return(MissingArgsMessage), analysis |-> emptyAnalysis ]
      ELSE IF r.thrown
        THEN [ out |-> Throw("TypeError"), analysis |-> r.analysis ]
      ELSE [ out |-> Return(buildAnalysisOutput(toString(feature), r.analysis)),
             analysis |-> r.analysis ]

\* check-permissions.ts:34-67  one run of checkPermissions: what it returns
\* or throws (out) and the analysis record it built (emptyAnalysis when the
\* run ended before line 61).
checkPermissionsRun(args) ==
  LET code == field(args, "code")
      feature == field(args, "feature")
      r == analyzePermissionPatterns(code, feature)
  IN  IF ~truthy(code) \/ ~truthy(feature)
        THEN [ out |-> Return(MissingArgsMessage), analysis |-> emptyAnalysis ]
      ELSE IF lookupKind(featureApiMap, feature) = "undefined"
        THEN [ out |-> Return(invalidFeatureMessage), analysis |-> emptyAnalysis ]
      ELSE IF r.thrown
        THEN [ out |-> Throw("TypeError"), analysis |-> r.analysis ]
      ELSE [ out |-> Return(buildAnalysisOutput(toString(feature), r.analysis)),
             analysis |-> r.analysis ]

checkPermissions(args) == checkPermissionsRun(args).out

(* ------------------------------ JSON.parse ----------------------------- *)

\* The grammar covered: null, true, false, non-negative integers without
\* leading zeros, strings without escape sequences, arrays and objects, with
\* blanks, tabs and line feeds between tokens.  An array is an object-like
\* value tagged "array" whose properties are its indexes.  Any other text is
\* a SyntaxError.

Arr(props) == [t |-> "array", s |-> "", n |-> 0, o |-> props]

\* The character at position i (one-based), "" outside the string.
at(s, i) == IF i >= 1 /\ i <= Len(s) THEN SubSeq(s, i, i) ELSE ""

\* s continues with word at position i.
continuesWith(s, i, word) ==
  i + Len(word) - 1 <= Len(s) /\ SubSeq(s, i, i + Len(word) - 1) = word

isDigit(c) == c # "" /\ includes(Digits, c)

digitValue(c) == (CHOOSE k \in 1..10 : SubSeq(Digits, k, k) = c) - 1

RECURSIVE skipBlanks(_, _)
skipBlanks(s, i) ==
  IF at(s, i) \in {" ", "\n", "\t", "\r"} THEN skipBlanks(s, i + 1) ELSE i

\* Position of the closing quote of the string whose first character is at
\* i, 0 when the string is not closed or holds a backslash or a line feed.
RECURSIVE closingQuote(_, _)
closingQuote(s, i) ==
  IF at(s, i) = "" \/ at(s, i) = "\\" \/ at(s, i) = "\n" THEN 0
  ELSE IF at(s, i) = "\"" THEN i
  ELSE closingQuote(s, i + 1)

\* Position after the last digit of the digit run starting at i.
RECURSIVE endOfDigits(_, _)
endOfDigits(s, i) ==
  IF isDigit(at(s, i)) THEN endOfDigits(s, i + 1) ELSE i

RECURSIVE digitsToNat(_)
digitsToNat(d) ==
  IF d = "" THEN 0
  ELSE 10 * digitsToNat(SubSeq(d, 1, Len(d) - 1)) + digitValue(SubSeq(d, Len(d), Len(d)))

parsed(v, next) == [ok |-> TRUE, v |-> v, i |-> next]
parseFailure == [ok |-> FALSE, v |-> Undefined, i |-> 0]

\* A parse step reads one value, one member list or one element list
\* starting at i and answers with the value and the position after it.
RECURSIVE parseValue(_, _)
RECURSIVE parseMembers(_, _, _)
RECURSIVE parseElements(_, _, _)

parseString(s, i) ==
  LET q == closingQuote(s, i + 1)
  IN  IF q = 0 THEN parseFailure ELSE parsed(Str(SubSeq(s, i + 1, q - 1)), q + 1)

parseNumber(s, i) ==
  LET e == endOfDigits(s, i)
  IN  IF at(s, i) = "0" /\ e > i + 1 THEN parseFailure
      ELSE IF at(s, e) \in {".", "e", "E"} THEN parseFailure
      ELSE parsed(Num(digitsToNat(SubSeq(s, i, e - 1))), e)

parseValue(s, i0) ==
  LET i == skipBlanks(s, i0)
      c == at(s, i)
  IN  IF continuesWith(s, i, "null") THEN parsed(Null, i + 4)
      ELSE IF continuesWith(s, i, "true") THEN parsed(Bool(TRUE), i + 4)
      ELSE IF continuesWith(s, i, "false") THEN parsed(Bool(FALSE), i + 5)
      ELSE IF c = "\"" THEN parseString(s, i)
      ELSE IF isDigit(c) THEN parseNumber(s, i)
      ELSE IF c = "{" THEN
        (IF at(s, skipBlanks(s, i + 1)) = "}"
           THEN parsed(Obj(NoProps), skipBlanks(s, i + 1) + 1)
           ELSE parseMembers(s, i + 1, NoProps))
      ELSE IF c = "[" THEN
        (IF at(s, skipBlanks(s, i + 1)) = "]"
           THEN parsed(Arr(NoProps), skipBlanks(s, i + 1) + 1)
           ELSE parseElements(s, i + 1, NoProps))
      ELSE parseFailure

\* "key": value, then "," and more members or "}".  A repeated key keeps
\* its last value.
parseMembers(s, i0, props) ==
  LET i == skipBlanks(s, i0)
      k == IF at(s, i) = "\"" THEN parseString(s, i) ELSE parseFailure
      colon == skipBlanks(s, k.i)
      v == parseValue(s, colon + 1)
      after == skipBlanks(s, v.i)
      more == (k.v.s :> v.v) @@ props
  IN  IF ~k.ok \/ at(s, colon) # ":" THEN parseFailure
      ELSE IF ~v.ok THEN parseFailure
      ELSE IF at(s, after) = "," THEN parseMembers(s, after + 1, more)
      ELSE IF at(s, after) = "}" THEN parsed(Obj(more), after + 1)
      ELSE parseFailure

parseElements(s, i0, props) ==
  LET v == parseValue(s, i0)
      after == skipBlanks(s, v.i)
      more == (natToString(Cardinality(DOMAIN props)) :> v.v) @@ props
  IN  IF ~v.ok THEN parseFailure
      ELSE IF at(s, after) = "," THEN parseElements(s, after + 1, more)
      ELSE IF at(s, after) = "]" THEN parsed(Arr(more), after + 1)
      ELSE parseFailure

\* JSON.parse(text): the argument is converted to a string first; ok is
\* FALSE when the call throws a SyntaxError.
JSONparse(text) ==
  LET s == toString(text)
      r == parseValue(s, 1)
  IN  IF r.ok /\ skipBlanks(s, r.i) = Len(s) + 1 THEN r ELSE parseFailure

(* ------------------- check-permissions.ts: validateSetup --------------- *)

\* v[key] for a value that is not null or undefined: an own property of an
\* object or array, undefined on anything else.  (None of the keys read by
\* validateSetup is a member of a built-in prototype.)
getProp(v, key) ==
  IF v.t \in {"object", "array"} /\ key \in DOMAIN v.o THEN v.o[key] ELSE Undefined

isNullish(v) == v.t \in {"undefined", "null"}

\* { ...v }: the own enumerable properties of v; a string spreads into its
\* characters, other primitives into nothing.
spread(v) ==
  IF v.t \in {"object", "array"} THEN v.o
  ELSE IF v.t = "string"
    THEN [k \in {natToString(i - 1) : i \in 1..Len(v.s)} |->
            Str(at(v.s, 1 + CHOOSE i \in 0..(Len(v.s) - 1) : natToString(i) = k))]
  ELSE NoProps

\* v || {}
orEmptyObject(v) == IF truthy(v) THEN v ELSE Obj(NoProps)

\* String.prototype.replace(/[\^~]/, ""): the first caret or tilde removed.
RECURSIVE dropFirstRangeMark(_)
dropFirstRangeMark(s) ==
  IF s = "" THEN ""
  ELSE IF at(s, 1) \in {"^", "~"} THEN SubSeq(s, 2, Len(s))
  ELSE at(s, 1) \o dropFirstRangeMark(SubSeq(s, 2, Len(s)))

\* String.prototype.split(".")[0]: the text before the first dot.
RECURSIVE beforeFirstDot(_)
beforeFirstDot(s) ==
  IF s = "" \/ at(s, 1) = "." THEN ""
  ELSE at(s, 1) \o beforeFirstDot(SubSeq(s, 2, Len(s)))

\* parseInt(s, 10): leading blanks, an optional sign, then digits; NaN when
\* no digit follows.
parseInt(s) ==
  LET i == skipBlanks(s, 1)
      signed == at(s, i) \in {"+", "-"}
      first == IF signed THEN i + 1 ELSE i
      e == endOfDigits(s, first)
      magnitude == digitsToNat(SubSeq(s, first, e - 1))
  IN  IF e = first THEN [nan |-> TRUE, n |-> 0]
      ELSE [nan |-> FALSE, n |-> IF at(s, i) = "-" THEN 0 - magnitude ELSE magnitude]

\* check-permissions.ts:374-379
emptyValidation ==
  [ isValid |-> TRUE, errors |-> << >>, warnings |-> << >>, suggestions |-> << >> ]

InvalidPackageJson == "**Error:** Invalid package.json - could not parse JSON"

NotInstalledError ==
  "@appolabs/appo is not installed. Run: %npm install @appolabs/appo% or %pnpm add @appolabs/appo%"

preReleaseWarning(version) ==
  "You're using version " \o version \o " which may be a pre-release. Consider upgrading to stable v1.x."

NoReactWarning ==
  "React is not listed as a dependency. The SDK hooks require React 16.8+."

reactTooOldError(reactVersion) ==
  "React " \o reactVersion \o " is too old. The SDK requires React 16.8+ for hooks support."

TypeScriptSuggestion ==
  "Consider adding TypeScript for better type safety. The SDK provides full TypeScript definitions."

moduleResolutionWarning(m) ==
  "moduleResolution is set to \"" \o m \o "\". Consider using \"bundler\" or \"node16\" for better ESM support."

StrictSuggestion ==
  "Enable strict mode in tsconfig.json for better type checking with the SDK."

EsModuleInteropWarning ==
  "Enable esModuleInterop in tsconfig.json for proper module imports."

TsConfigParseWarning == "Could not parse tsconfig.json"

MinReactMajor == 16

\* allDeps[name]
dependency(allDeps, name) == IF name \in DOMAIN allDeps THEN allDeps[name] ELSE Undefined

\* check-permissions.ts:401-414  the check of @appolabs/appo
checkAppo(appo, r) ==
  IF ~truthy(appo)
    THEN [ r EXCEPT !.isValid = FALSE, !.errors = Append(@, NotInstalledError) ]
  ELSE IF isString(appo) /\ (startsWith(appo.s, "^0.") \/ startsWith(appo.s, "0."))
    THEN [ r EXCEPT !.warnings = Append(@, preReleaseWarning(appo.s)) ]
  ELSE r

\* A comparison that records the error and leaves the verdict alone.
checkReactMajorStillValid(react, majorVersion, r) ==
  IF ~majorVersion.nan /\ majorVersion.n < MinReactMajor
    THEN [ r EXCEPT !.errors = Append(@, reactTooOldError(react)) ]
    ELSE r

\* check-permissions.ts:424-429  the comparison of the major version
checkReactMajor(react, majorVersion, r) ==
  IF ~majorVersion.nan /\ majorVersion.n < MinReactMajor
    THEN [ r EXCEPT !.errors = Append(@, reactTooOldError(react)), !.isValid = FALSE ]
    ELSE r

\* check-permissions.ts:417-430  the check of react
checkReact(react, r) ==
  IF ~truthy(react) THEN [ r EXCEPT !.warnings = Append(@, NoReactWarning) ]
  ELSE IF isString(react)
    THEN checkReactMajor(react.s, parseInt(beforeFirstDot(dropFirstRangeMark(react.s))), r)
  ELSE r

\* check-permissions.ts:433-437  the check of typescript
checkTypeScript(typescript, r) ==
  IF ~truthy(typescript)
    THEN [ r EXCEPT !.suggestions = Append(@, TypeScriptSuggestion) ]
    ELSE r

\* check-permissions.ts:401-437 for the three entries of allDeps.  thrown: a
\* version that is not a string has no startsWith (line 409) or replace
\* (line 423).
checkVersions(appo, react, typescript, r0) ==
  IF truthy(appo) /\ ~isString(appo) THEN [ thrown |-> TRUE, result |-> r0 ]
  ELSE IF truthy(react) /\ ~isString(react)
    THEN [ thrown |-> TRUE, result |-> checkAppo(appo, r0) ]
  ELSE [ thrown |-> FALSE,
         result |-> checkTypeScript(typescript, checkReact(react, checkAppo(appo, r0))) ]

\* check-permissions.ts:396-437  the dependency checks
checkDependencies(allDeps, r0) ==
  checkVersions(dependency(allDeps, "@appolabs/appo"), dependency(allDeps, "react"),
                dependency(allDeps, "typescript"), r0)

AcceptedModuleResolutions == { "node", "node16", "nodenext", "bundler" }

\* check-permissions.ts:446-455  the check of moduleResolution
checkModuleResolution(moduleResolution, r) ==
  IF truthy(moduleResolution)
       /\ toLowerCase(moduleResolution.s) \notin AcceptedModuleResolutions
    THEN [ r EXCEPT !.warnings = Append(@, moduleResolutionWarning(moduleResolution.s)) ]
    ELSE r

\* check-permissions.ts:458-462  the check of strict
checkStrict(strict, r) ==
  IF ~truthy(strict) THEN [ r EXCEPT !.suggestions = Append(@, StrictSuggestion) ] ELSE r

\* check-permissions.ts:465-469  the check of esModuleInterop
checkEsModuleInterop(esModuleInterop, r) ==
  IF ~truthy(esModuleInterop)
    THEN [ r EXCEPT !.warnings = Append(@, EsModuleInteropWarning) ]
    ELSE r

\* check-permissions.ts:443-469 for the compilerOptions of a parsed tsconfig;
\* toLowerCase on a moduleResolution that is no string throws into the catch.
checkCompilerOptions(moduleResolution, strict, esModuleInterop, r0) ==
  IF truthy(moduleResolution) /\ ~isString(moduleResolution)
    THEN [ r0 EXCEPT !.warnings = Append(@, TsConfigParseWarning) ]
    ELSE checkEsModuleInterop(esModuleInterop,
           checkStrict(strict, checkModuleResolution(moduleResolution, r0)))

\* ts.compilerOptions || {}
compilerOptionsOf(ts) == orEmptyObject(getProp(ts, "compilerOptions"))

\* check-permissions.ts:442-472 for the outcome p of JSON.parse(tsConfig)
checkParsedTsConfig(p, r0) ==
  IF ~p.ok \/ isNullish(p.v)
    THEN [ r0 EXCEPT !.warnings = Append(@, TsConfigParseWarning) ]
    ELSE checkCompilerOptions(getProp(compilerOptionsOf(p.v), "moduleResolution"),
                              getProp(compilerOptionsOf(p.v), "strict"),
                              getProp(compilerOptionsOf(p.v), "esModuleInterop"), r0)

\* check-permissions.ts:440-473  the tsconfig checks; every exception raised
\* inside is caught and leaves one warning.
checkTsConfig(tsConfig, r0) ==
  IF ~truthy(tsConfig) THEN r0 ELSE checkParsedTsConfig(JSONparse(tsConfig), r0)

asyncMethods ==
  << "requestPermission", "getToken", "authenticate", "takePicture",
     "getCurrentPosition", "getStatus", "getInfo" >>

ImportWarning ==
  "Make sure to import %getAppo% from '@appolabs/appo' to access the SDK instance."

WindowAppoWarning ==
  "Avoid accessing %window.appo% directly. Use %getAppo()% from the SDK for type safety and proper initialization."

promiseWarning(method) ==
  "The method %" \o method \o "% returns a Promise. Make sure to use %await% or %.then()%."

PermissionSuggestion ==
  "Consider requesting permission before accessing protected features (push token, camera, location)."

TryCatchSdkSuggestion ==
  "Consider adding try/catch blocks around SDK calls to handle potential errors gracefully."

CleanupWarning ==
  "When using %appo.push.onMessage()% in useEffect, make sure to return the unsubscribe function for cleanup."

\* check-permissions.ts:516-524  the first async method called without
\* await or .then( gets the one warning of the loop.
promiseWarnings(code) ==
  LET unawaited == { i \in 1..Len(asyncMethods) :
                       /\ includes(code, "." \o asyncMethods[i] \o "(")
                       /\ ~includes(code, "await")
                       /\ ~includes(code, ".then(") }
  IN  IF unawaited = {} THEN << >>
      ELSE << promiseWarning(asyncMethods[CHOOSE i \in unawaited : \A j \in unawaited : i <= j]) >>

\* check-permissions.ts:488-549
validateCodePatterns(code, r0) ==
  [ r0 EXCEPT
      !.warnings =
        @ \o (IF /\ includes(code, "@appolabs/appo")
                 /\ ~includes(code, "getAppo")
                 /\ ~includes(code, "from '@appolabs/appo'")
                THEN << ImportWarning >> ELSE << >>)
          \o (IF includes(code, "window.appo") THEN << WindowAppoWarning >> ELSE << >>)
          \o promiseWarnings(code)
          \o (IF /\ includes(code, "useEffect")
                 /\ includes(code, "onMessage")
                 /\ ~includes(code, "return")
                THEN << CleanupWarning >> ELSE << >>),
      !.suggestions =
        @ \o (IF /\ \/ includes(code, "push.getToken")
                    \/ includes(code, "camera.takePicture")
                    \/ includes(code, "location.getCurrentPosition")
                 /\ ~includes(code, "requestPermission")
                THEN << PermissionSuggestion >> ELSE << >>)
          \o (IF /\ includes(code, "getAppo()")
                 /\ ~includes(code, "try")
                 /\ ~includes(code, "catch")
                THEN << TryCatchSdkSuggestion >> ELSE << >>) ]

\* The glyphs of check-permissions.ts:556 and 571 (a check mark and a warning
\* sign) are outside ASCII; these stand for them.
CheckMark == "(v)"
WarnMark == "(!)"

QuickStart ==
  << "\n### Quick Start\n",
     "%%%tsx",
     "import { getAppo } from '@appolabs/appo';",
     "",
     "function MyComponent() {",
     "  const appo = getAppo();",
     "",
     "  // Check if running in native app",
     "  if (appo.isNative) {",
     "    // Use native features",
     "  }",
     "}",
     "%%%" >>

LooksGood ==
  "Your @appolabs/appo setup looks good! The SDK is properly installed and configured."

\* check-permissions.ts:551-609
buildValidationOutput(r) ==
  LET sections ==
        (IF r.isValid /\ Len(r.errors) = 0
           THEN << "## " \o CheckMark \o " Setup Validation Passed\n" >>
           ELSE << "## " \o CrossMark \o " Setup Validation Failed\n" >>)
        \o (IF Len(r.errors) > 0
              THEN << "### Errors\n" >> \o marked(CrossMark, r.errors) \o << "" >>
              ELSE << >>)
        \o (IF Len(r.warnings) > 0
              THEN << "### Warnings\n" >> \o marked(WarnMark, r.warnings) \o << "" >>
              ELSE << >>)
        \o (IF Len(r.suggestions) > 0
              THEN << "### Suggestions\n" >> \o marked(BulbMark, r.suggestions) \o << "" >>
              ELSE << >>)
        \o (IF Len(r.errors) = 0 /\ Len(r.warnings) = 0 /\ Len(r.suggestions) = 0
              THEN << LooksGood >>
              ELSE << >>)
        \o QuickStart
  IN  join(sections, "\n")

\* { ...dependencies, ...devDependencies } of a parsed package.json
allDepsOf(pkg) ==
  spread(orEmptyObject(getProp(pkg, "devDependencies")))
    @@ spread(orEmptyObject(getProp(pkg, "dependencies")))

\* check-permissions.ts:475-485  the sample code checks and the report, for
\* the result r the earlier checks left
validateSampleCode(sampleCode, r) ==
  IF ~truthy(sampleCode)
    THEN [ out |-> Return(buildValidationOutput(r)), validation |-> r ]
  ELSE IF ~isString(sampleCode)     \* code.includes is not a function
    THEN [ out |-> Throw("TypeError"), validation |-> r ]
  ELSE [ out |-> Return(buildValidationOutput(validateCodePatterns(sampleCode.s, r))),
         validation |-> validateCodePatterns(sampleCode.s, r) ]

\* check-permissions.ts:439-485 for the outcome deps of the dependency checks
validateAfterDependencies(deps, tsConfig, sampleCode) ==
  IF deps.thrown
    THEN [ out |-> Throw("TypeError"), validation |-> deps.result ]
    ELSE validateSampleCode(sampleCode, checkTsConfig(tsConfig, deps.result))

\* check-permissions.ts:383-485 for the outcome p of JSON.parse(packageJson)
validateParsed(p, tsConfig, sampleCode) ==
  IF ~p.ok
    THEN [ out |-> Return(InvalidPackageJson), validation |-> emptyValidation ]
  ELSE IF isNullish(p.v)     \* pkg.dependencies: cannot read properties of null
    THEN [ out |-> Throw("TypeError"), validation |-> emptyValidation ]
  ELSE validateAfterDependencies(checkDependencies(allDepsOf(p.v), emptyValidation),
                                 tsConfig, sampleCode)

\* check-permissions.ts:369-486  one run of validateSetup: what it returns
\* or throws (out) and the ValidationResult it built so far (validation).
validateSetupRun(args) ==
  validateParsed(JSONparse(field(args, "packageJson")),
                 field(args, "tsConfig"), field(args, "sampleCode"))

validateSetup(args) == validateSetupRun(args).out
(* --------------- tables looked up with a caller-supplied key ----------- *)

\* String(Object.prototype[key]): how an inherited member prints in a
\* template literal.
memberText(key) ==
  IF key = "__proto__" THEN "[object Object]"
  ELSE "function " \o key \o "() { [native code] }"

\* `${table[key]}` for a table of strings.
lookupText(table, key) ==
  IF hasOwn(table, key) THEN ownEntry(table, key).value
  ELSE IF key \in ObjectPrototypeKeys THEN memberText(key)
  ELSE "undefined"

\* Object.prototype[key](argsObject) with a template table as receiver,
\* printed: __proto__ is not a function and __defineGetter__ and
\* __defineSetter__ reject a missing accessor, the others return.
InheritedNotCallable == { "__proto__", "__defineGetter__", "__defineSetter__" }

inheritedCallText(key) ==
  IF key \in { "hasOwnProperty", "isPrototypeOf", "propertyIsEnumerable" } THEN "false"
  ELSE IF key \in { "__lookupGetter__", "__lookupSetter__" } THEN "undefined"
  ELSE "[object Object]"

\* feature.charAt(0).toUpperCase() + feature.slice(1)
capitalize(feature) == toUpperCase(charAt(feature, 0)) \o slice(feature, 1)

\* A destructuring default: d when the property is undefined.
orDefault(v, d) == IF v.t = "undefined" THEN d ELSE v

(* ---------------------- part_001: generateHook ------------------------- *)

\* part_001: hookTemplates.push, after .trim()
hookTemplate_push(hookName, includeLoading, includeError) ==
  "import { useState, useEffect, useCallback } from 'react';\n" \o
  "import { getAppo, type PushMessage, type PermissionStatus } from '@appolabs/appo';\n" \o
  "\n" \o
  "interface UsePushNotificationsReturn {\n" \o
  "  permission: PermissionStatus | null;\n" \o
  "  token: string | null;\n" \o
  "  " \o (IF includeLoading THEN "isLoading: boolean;" ELSE "") \o "\n" \o
  "  " \o (IF includeError THEN "error: Error | null;" ELSE "") \o "\n" \o
  "  requestPermission: () => Promise<PermissionStatus>;\n" \o
  "  getToken: () => Promise<string | null>;\n" \o
  "}\n" \o
  "\n" \o
  "export function " \o hookName \o "(\n" \o
  "  onMessage?: (message: PushMessage) => void\n" \o
  "): UsePushNotificationsReturn {\n" \o
  "  const [permission, setPermission] = useState<PermissionStatus | null>(null);\n" \o
  "  const [token, setToken] = useState<string | null>(null);\n" \o
  "  " \o (IF includeLoading THEN "const [isLoading, setIsLoading] = useState(false);" ELSE "") \o "\n" \o
  "  " \o (IF includeError THEN "const [error, setError] = useState<Error | null>(null);" ELSE "") \o "\n" \o
  "\n" \o
  "  const appo = getAppo();\n" \o
  "\n" \o
  "  useEffect(() => {\n" \o
  "    if (!onMessage) return;\n" \o
  "    return appo.push.onMessage(onMessage);\n" \o
  "  }, [onMessage]);\n" \o
  "\n" \o
  "  const requestPermission = useCallback(async () => {\n" \o
  "    " \o (IF includeLoading THEN "setIsLoading(true);" ELSE "") \o "\n" \o
  "    " \o (IF includeError THEN "setError(null);" ELSE "") \o "\n" \o
  "    try {\n" \o
  "      const status = await appo.push.requestPermission();\n" \o
  "      setPermission(status);\n" \o
  "      return status;\n" \o
  "    } catch (err) {\n" \o
  "      " \o (IF includeError THEN "setError(err instanceof Error ? err : new Error('Failed to request permission'));" ELSE "") \o "\n" \o
  "      throw err;\n" \o
  "    } finally {\n" \o
  "      " \o (IF includeLoading THEN "setIsLoading(false);" ELSE "") \o "\n" \o
  "    }\n" \o
  "  }, []);\n" \o
  "\n" \o
  "  const getTokenFn = useCallback(async () => {\n" \o
  "    " \o (IF includeLoading THEN "setIsLoading(true);" ELSE "") \o "\n" \o
  "    " \o (IF includeError THEN "setError(null);" ELSE "") \o "\n" \o
  "    try {\n" \o
  "      const pushToken = await appo.push.getToken();\n" \o
  "      setToken(pushToken);\n" \o
  "      return pushToken;\n" \o
  "    } catch (err) {\n" \o
  "      " \o (IF includeError THEN "setError(err instanceof Error ? err : new Error('Failed to get token'));" ELSE "") \o "\n" \o
  "      throw err;\n" \o
  "    } finally {\n" \o
  "      " \o (IF includeLoading THEN "setIsLoading(false);" ELSE "") \o "\n" \o
  "    }\n" \o
  "  }, []);\n" \o
  "\n" \o
  "  return {\n" \o
  "    permission,\n" \o
  "    token,\n" \o
  "    " \o (IF includeLoading THEN "isLoading," ELSE "") \o "\n" \o
  "    " \o (IF includeError THEN "error," ELSE "") \o "\n" \o
  "    requestPermission,\n" \o
  "    getToken: getTokenFn,\n" \o
  "  };\n" \o
  "}"

\* part_001: hookTemplates.biometrics, after .trim()
hookTemplate_biometrics(hookName, includeLoading, includeError) ==
  "import { useState, useCallback } from 'react';\n" \o
  "import { getAppo } from '@appolabs/appo';\n" \o
  "\n" \o
  "interface UseBiometricsReturn {\n" \o
  "  isAvailable: boolean | null;\n" \o
  "  isAuthenticated: boolean;\n" \o
  "  " \o (IF includeLoading THEN "isLoading: boolean;" ELSE "") \o "\n" \o
  "  " \o (IF includeError THEN "error: Error | null;" ELSE "") \o "\n" \o
  "  checkAvailability: () => Promise<boolean>;\n" \o
  "  authenticate: (reason: string) => Promise<boolean>;\n" \o
  "}\n" \o
  "\n" \o
  "export function " \o hookName \o "(): UseBiometricsReturn {\n" \o
  "  const [isAvailable, setIsAvailable] = useState<boolean | null>(null);\n" \o
  "  const [isAuthenticated, setIsAuthenticated] = useState(false);\n" \o
  "  " \o (IF includeLoading THEN "const [isLoading, setIsLoading] = useState(false);" ELSE "") \o "\n" \o
  "  " \o (IF includeError THEN "const [error, setError] = useState<Error | null>(null);" ELSE "") \o "\n" \o
  "\n" \o
  "  const appo = getAppo();\n" \o
  "\n" \o
  "  const checkAvailability = useCallback(async () => {\n" \o
  "    " \o (IF includeLoading THEN "setIsLoading(true);" ELSE "") \o "\n" \o
  "    " \o (IF includeError THEN "setError(null);" ELSE "") \o "\n" \o
  "    try {\n" \o
  "      const available = await appo.biometrics.isAvailable();\n" \o
  "      setIsAvailable(available);\n" \o
  "      return available;\n" \o
  "    } catch (err) {\n" \o
  "      " \o (IF includeError THEN "setError(err instanceof Error ? err : new Error('Failed to check biometrics'));" ELSE "") \o "\n" \o
  "      throw err;\n" \o
  "    } finally {\n" \o
  "      " \o (IF includeLoading THEN "setIsLoading(false);" ELSE "") \o "\n" \o
  "    }\n" \o
  "  }, []);\n" \o
  "\n" \o
  "  const authenticate = useCallback(async (reason: string) => {\n" \o
  "    " \o (IF includeLoading THEN "setIsLoading(true);" ELSE "") \o "\n" \o
  "    " \o (IF includeError THEN "setError(null);" ELSE "") \o "\n" \o
  "    try {\n" \o
  "      const success = await appo.biometrics.authenticate(reason);\n" \o
  "      setIsAuthenticated(success);\n" \o
  "      return success;\n" \o
  "    } catch (err) {\n" \o
  "      " \o (IF includeError THEN "setError(err instanceof Error ? err : new Error('Biometric authentication failed'));" ELSE "") \o "\n" \o
  "      throw err;\n" \o
  "    } finally {\n" \o
  "      " \o (IF includeLoading THEN "setIsLoading(false);" ELSE "") \o "\n" \o
  "    }\n" \o
  "  }, []);\n" \o
  "\n" \o
  "  return {\n" \o
  "    isAvailable,\n" \o
  "    isAuthenticated,\n" \o
  "    " \o (IF includeLoading THEN "isLoading," ELSE "") \o "\n" \o
  "    " \o (IF includeError THEN "error," ELSE "") \o "\n" \o
  "    checkAvailability,\n" \o
  "    authenticate,\n" \o
  "  };\n" \o
  "}"

\* part_001: hookTemplates.camera, after .trim()
hookTemplate_camera(hookName, includeLoading, includeError) ==
  "import { useState, useCallback } from 'react';\n" \o
  "import { getAppo, type PermissionStatus } from '@appolabs/appo';\n" \o
  "\n" \o
  "interface Photo {\n" \o
  "  uri: string;\n" \o
  "  base64?: string;\n" \o
  "  width: number;\n" \o
  "  height: number;\n" \o
  "}\n" \o
  "\n" \o
  "interface UseCameraReturn {\n" \o
  "  permission: PermissionStatus | null;\n" \o
  "  photo: Photo | null;\n" \o
  "  " \o (IF includeLoading THEN "isLoading: boolean;" ELSE "") \o "\n" \o
  "  " \o (IF includeError THEN "error: Error | null;" ELSE "") \o "\n" \o
  "  requestPermission: () => Promise<PermissionStatus>;\n" \o
  "  takePicture: () => Promise<Photo | null>;\n" \o
  "  clearPhoto: () => void;\n" \o
  "}\n" \o
  "\n" \o
  "export function " \o hookName \o "(): UseCameraReturn {\n" \o
  "  const [permission, setPermission] = useState<PermissionStatus | null>(null);\n" \o
  "  const [photo, setPhoto] = useState<Photo | null>(null);\n" \o
  "  " \o (IF includeLoading THEN "const [isLoading, setIsLoading] = useState(false);" ELSE "") \o "\n" \o
  "  " \o (IF includeError THEN "const [error, setError] = useState<Error | null>(null);" ELSE "") \o "\n" \o
  "\n" \o
  "  const appo = getAppo();\n" \o
  "\n" \o
  "  const requestPermission = useCallback(async () => {\n" \o
  "    " \o (IF includeLoading THEN "setIsLoading(true);" ELSE "") \o "\n" \o
  "    " \o (IF includeError THEN "setError(null);" ELSE "") \o "\n" \o
  "    try {\n" \o
  "      const status = await appo.camera.requestPermission();\n" \o
  "      setPermission(status);\n" \o
  "      return status;\n" \o
  "    } catch (err) {\n" \o
  "      " \o (IF includeError THEN "setError(err instanceof Error ? err : new Error('Failed to request camera permission'));" ELSE "") \o "\n" \o
  "      throw err;\n" \o
  "    } finally {\n" \o
  "      " \o (IF includeLoading THEN "setIsLoading(false);" ELSE "") \o "\n" \o
  "    }\n" \o
  "  }, []);\n" \o
  "\n" \o
  "  const takePicture = useCallback(async () => {\n" \o
  "    " \o (IF includeLoading THEN "setIsLoading(true);" ELSE "") \o "\n" \o
  "    " \o (IF includeError THEN "setError(null);" ELSE "") \o "\n" \o
  "    try {\n" \o
  "      const result = await appo.camera.takePicture();\n" \o
  "      if (result) {\n" \o
  "        setPhoto(result);\n" \o
  "      }\n" \o
  "      return result;\n" \o
  "    } catch (err) {\n" \o
  "      " \o (IF includeError THEN "setError(err instanceof Error ? err : new Error('Failed to take picture'));" ELSE "") \o "\n" \o
  "      throw err;\n" \o
  "    } finally {\n" \o
  "      " \o (IF includeLoading THEN "setIsLoading(false);" ELSE "") \o "\n" \o
  "    }\n" \o
  "  }, []);\n" \o
  "\n" \o
  "  const clearPhoto = useCallback(() => {\n" \o
  "    setPhoto(null);\n" \o
  "  }, []);\n" \o
  "\n" \o
  "  return {\n" \o
  "    permission,\n" \o
  "    photo,\n" \o
  "    " \o (IF includeLoading THEN "isLoading," ELSE "") \o "\n" \o
  "    " \o (IF includeError THEN "error," ELSE "") \o "\n" \o
  "    requestPermission,\n" \o
  "    takePicture,\n" \o
  "    clearPhoto,\n" \o
  "  };\n" \o
  "}"

\* part_001: hookTemplates.location, after .trim()
hookTemplate_location(hookName, includeLoading, includeError) ==
  "import { useState, useCallback } from 'react';\n" \o
  "import { getAppo, type PermissionStatus } from '@appolabs/appo';\n" \o
  "\n" \o
  "interface Position {\n" \o
  "  latitude: number;\n" \o
  "  longitude: number;\n" \o
  "  altitude: number | null;\n" \o
  "  accuracy: number;\n" \o
  "  timestamp: number;\n" \o
  "}\n" \o
  "\n" \o
  "interface UseLocationReturn {\n" \o
  "  permission: PermissionStatus | null;\n" \o
  "  position: Position | null;\n" \o
  "  " \o (IF includeLoading THEN "isLoading: boolean;" ELSE "") \o "\n" \o
  "  " \o (IF includeError THEN "error: Error | null;" ELSE "") \o "\n" \o
  "  requestPermission: () => Promise<PermissionStatus>;\n" \o
  "  getCurrentPosition: () => Promise<Position | null>;\n" \o
  "}\n" \o
  "\n" \o
  "export function " \o hookName \o "(): UseLocationReturn {\n" \o
  "  const [permission, setPermission] = useState<PermissionStatus | null>(null);\n" \o
  "  const [position, setPosition] = useState<Position | null>(null);\n" \o
  "  " \o (IF includeLoading THEN "const [isLoading, setIsLoading] = useState(false);" ELSE "") \o "\n" \o
  "  " \o (IF includeError THEN "const [error, setError] = useState<Error | null>(null);" ELSE "") \o "\n" \o
  "\n" \o
  "  const appo = getAppo();\n" \o
  "\n" \o
  "  const requestPermission = useCallback(async () => {\n" \o
  "    " \o (IF includeLoading THEN "setIsLoading(true);" ELSE "") \o "\n" \o
  "    " \o (IF includeError THEN "setError(null);" ELSE "") \o "\n" \o
  "    try {\n" \o
  "      const status = await appo.location.requestPermission();\n" \o
  "      setPermission(status);\n" \o
  "      return status;\n" \o
  "    } catch (err) {\n" \o
  "      " \o (IF includeError THEN "setError(err instanceof Error ? err : new Error('Failed to request location permission'));" ELSE "") \o "\n" \o
  "      throw err;\n" \o
  "    } finally {\n" \o
  "      " \o (IF includeLoading THEN "setIsLoading(false);" ELSE "") \o "\n" \o
  "    }\n" \o
  "  }, []);\n" \o
  "\n" \o
  "  const getCurrentPosition = useCallback(async () => {\n" \o
  "    " \o (IF includeLoading THEN "setIsLoading(true);" ELSE "") \o "\n" \o
  "    " \o (IF includeError THEN "setError(null);" ELSE "") \o "\n" \o
  "    try {\n" \o
  "      const pos = await appo.location.getCurrentPosition();\n" \o
  "      if (pos) {\n" \o
  "        setPosition(pos);\n" \o
  "      }\n" \o
  "      return pos;\n" \o
  "    } catch (err) {\n" \o
  "      " \o (IF includeError THEN "setError(err instanceof Error ? err : new Error('Failed to get location'));" ELSE "") \o "\n" \o
  "      throw err;\n" \o
  "    } finally {\n" \o
  "      " \o (IF includeLoading THEN "setIsLoading(false);" ELSE "") \o "\n" \o
  "    }\n" \o
  "  }, []);\n" \o
  "\n" \o
  "  return {\n" \o
  "    permission,\n" \o
  "    position,\n" \o
  "    " \o (IF includeLoading THEN "isLoading," ELSE "") \o "\n" \o
  "    " \o (IF includeError THEN "error," ELSE "") \o "\n" \o
  "    requestPermission,\n" \o
  "    getCurrentPosition,\n" \o
  "  };\n" \o
  "}"

\* part_001: hookTemplates.haptics, after .trim()
hookTemplate_haptics(hookName, includeLoading, includeError) ==
  "import { useCallback } from 'react';\n" \o
  "import { getAppo } from '@appolabs/appo';\n" \o
  "\n" \o
  "type ImpactStyle = 'light' | 'medium' | 'heavy';\n" \o
  "type NotificationType = 'success' | 'warning' | 'error';\n" \o
  "\n" \o
  "interface UseHapticsReturn {\n" \o
  "  impact: (style?: ImpactStyle) => void;\n" \o
  "  notification: (type: NotificationType) => void;\n" \o
  "  success: () => void;\n" \o
  "  warning: () => void;\n" \o
  "  error: () => void;\n" \o
  "}\n" \o
  "\n" \o
  "export function " \o hookName \o "(): UseHapticsReturn {\n" \o
  "  const appo = getAppo();\n" \o
  "\n" \o
  "  const impact = useCallback((style: ImpactStyle = 'medium') => {\n" \o
  "    appo.haptics.impact(style);\n" \o
  "  }, []);\n" \o
  "\n" \o
  "  const notification = useCallback((type: NotificationType) => {\n" \o
  "    appo.haptics.notification(type);\n" \o
  "  }, []);\n" \o
  "\n" \o
  "  const success = useCallback(() => {\n" \o
  "    appo.haptics.notification('success');\n" \o
  "  }, []);\n" \o
  "\n" \o
  "  const warning = useCallback(() => {\n" \o
  "    appo.haptics.notification('warning');\n" \o
  "  }, []);\n" \o
  "\n" \o
  "  const error = useCallback(() => {\n" \o
  "    appo.haptics.notification('error');\n" \o
  "  }, []);\n" \o
  "\n" \o
  "  return {\n" \o
  "    impact,\n" \o
  "    notification,\n" \o
  "    success,\n" \o
  "    warning,\n" \o
  "    error,\n" \o
  "  };\n" \o
  "}"

\* part_001: hookTemplates.storage, after .trim()
hookTemplate_storage(hookName, includeLoading, includeError) ==
  "import { useState, useCallback } from 'react';\n" \o
  "import { getAppo } from '@appolabs/appo';\n" \o
  "\n" \o
  "interface UseStorageReturn<T> {\n" \o
  "  value: T | null;\n" \o
  "  " \o (IF includeLoading THEN "isLoading: boolean;" ELSE "") \o "\n" \o
  "  " \o (IF includeError THEN "error: Error | null;" ELSE "") \o "\n" \o
  "  get: () => Promise<T | null>;\n" \o
  "  set: (value: T) => Promise<void>;\n" \o
  "  remove: () => Promise<void>;\n" \o
  "}\n" \o
  "\n" \o
  "export function " \o hookName \o "<T = string>(key: string): UseStorageReturn<T> {\n" \o
  "  const [value, setValue] = useState<T | null>(null);\n" \o
  "  " \o (IF includeLoading THEN "const [isLoading, setIsLoading] = useState(false);" ELSE "") \o "\n" \o
  "  " \o (IF includeError THEN "const [error, setError] = useState<Error | null>(null);" ELSE "") \o "\n" \o
  "\n" \o
  "  const appo = getAppo();\n" \o
  "\n" \o
  "  const get = useCallback(async () => {\n" \o
  "    " \o (IF includeLoading THEN "setIsLoading(true);" ELSE "") \o "\n" \o
  "    " \o (IF includeError THEN "setError(null);" ELSE "") \o "\n" \o
  "    try {\n" \o
  "      const stored = await appo.storage.get(key);\n" \o
  "      const parsed = stored ? JSON.parse(stored) as T : null;\n" \o
  "      setValue(parsed);\n" \o
  "      return parsed;\n" \o
  "    } catch (err) {\n" \o
  "      " \o (IF includeError THEN "setError(err instanceof Error ? err : new Error('Failed to get storage value'));" ELSE "") \o "\n" \o
  "      throw err;\n" \o
  "    } finally {\n" \o
  "      " \o (IF includeLoading THEN "setIsLoading(false);" ELSE "") \o "\n" \o
  "    }\n" \o
  "  }, [key]);\n" \o
  "\n" \o
  "  const set = useCallback(async (newValue: T) => {\n" \o
  "    " \o (IF includeLoading THEN "setIsLoading(true);" ELSE "") \o "\n" \o
  "    " \o (IF includeError THEN "setError(null);" ELSE "") \o "\n" \o
  "    try {\n" \o
  "      await appo.storage.set(key, JSON.stringify(newValue));\n" \o
  "      setValue(newValue);\n" \o
  "    } catch (err) {\n" \o
  "      " \o (IF includeError THEN "setError(err instanceof Error ? err : new Error('Failed to set storage value'));" ELSE "") \o "\n" \o
  "      throw err;\n" \o
  "    } finally {\n" \o
  "      " \o (IF includeLoading THEN "setIsLoading(false);" ELSE "") \o "\n" \o
  "    }\n" \o
  "  }, [key]);\n" \o
  "\n" \o
  "  const remove = useCallback(async () => {\n" \o
  "    " \o (IF includeLoading THEN "setIsLoading(true);" ELSE "") \o "\n" \o
  "    " \o (IF includeError THEN "setError(null);" ELSE "") \o "\n" \o
  "    try {\n" \o
  "      await appo.storage.delete(key);\n" \o
  "      setValue(null);\n" \o
  "    } catch (err) {\n" \o
  "      " \o (IF includeError THEN "setError(err instanceof Error ? err : new Error('Failed to delete storage value'));" ELSE "") \o "\n" \o
  "      throw err;\n" \o
  "    } finally {\n" \o
  "      " \o (IF includeLoading THEN "setIsLoading(false);" ELSE "") \o "\n" \o
  "    }\n" \o
  "  }, [key]);\n" \o
  "\n" \o
  "  return {\n" \o
  "    value,\n" \o
  "    " \o (IF includeLoading THEN "isLoading," ELSE "") \o "\n" \o
  "    " \o (IF includeError THEN "error," ELSE "") \o "\n" \o
  "    get,\n" \o
  "    set,\n" \o
  "    remove,\n" \o
  "  };\n" \o
  "}"

\* part_001: hookTemplates.share, after .trim()
hookTemplate_share(hookName, includeLoading, includeError) ==
  "import { useState, useCallback } from 'react';\n" \o
  "import { getAppo } from '@appolabs/appo';\n" \o
  "\n" \o
  "interface ShareOptions {\n" \o
  "  title?: string;\n" \o
  "  message?: string;\n" \o
  "  url?: string;\n" \o
  "}\n" \o
  "\n" \o
  "interface ShareResult {\n" \o
  "  success: boolean;\n" \o
  "  action?: string;\n" \o
  "}\n" \o
  "\n" \o
  "interface UseShareReturn {\n" \o
  "  " \o (IF includeLoading THEN "isLoading: boolean;" ELSE "") \o "\n" \o
  "  " \o (IF includeError THEN "error: Error | null;" ELSE "") \o "\n" \o
  "  share: (options: ShareOptions) => Promise<ShareResult>;\n" \o
  "}\n" \o
  "\n" \o
  "export function " \o hookName \o "(): UseShareReturn {\n" \o
  "  " \o (IF includeLoading THEN "const [isLoading, setIsLoading] = useState(false);" ELSE "") \o "\n" \o
  "  " \o (IF includeError THEN "const [error, setError] = useState<Error | null>(null);" ELSE "") \o "\n" \o
  "\n" \o
  "  const appo = getAppo();\n" \o
  "\n" \o
  "  const share = useCallback(async (options: ShareOptions) => {\n" \o
  "    " \o (IF includeLoading THEN "setIsLoading(true);" ELSE "") \o "\n" \o
  "    " \o (IF includeError THEN "setError(null);" ELSE "") \o "\n" \o
  "    try {\n" \o
  "      const result = await appo.share.open(options);\n" \o
  "      return result;\n" \o
  "    } catch (err) {\n" \o
  "      " \o (IF includeError THEN "setError(err instanceof Error ? err : new Error('Failed to share'));" ELSE "") \o "\n" \o
  "      throw err;\n" \o
  "    } finally {\n" \o
  "      " \o (IF includeLoading THEN "setIsLoading(false);" ELSE "") \o "\n" \o
  "    }\n" \o
  "  }, []);\n" \o
  "\n" \o
  "  return {\n" \o
  "    " \o (IF includeLoading THEN "isLoading," ELSE "") \o "\n" \o
  "    " \o (IF includeError THEN "error," ELSE "") \o "\n" \o
  "    share,\n" \o
  "  };\n" \o
  "}"

\* part_001: hookTemplates.network, after .trim()
hookTemplate_network(hookName, includeLoading, includeError) ==
  "import { useState, useEffect, useCallback } from 'react';\n" \o
  "import { getAppo } from '@appolabs/appo';\n" \o
  "\n" \o
  "interface NetworkStatus {\n" \o
  "  isConnected: boolean;\n" \o
  "  type: 'wifi' | 'cellular' | 'unknown' | 'none';\n" \o
  "}\n" \o
  "\n" \o
  "interface UseNetworkReturn {\n" \o
  "  status: NetworkStatus | null;\n" \o
  "  isOnline: boolean;\n" \o
  "  refresh: () => Promise<NetworkStatus | null>;\n" \o
  "}\n" \o
  "\n" \o
  "export function " \o hookName \o "(): UseNetworkReturn {\n" \o
  "  const [status, setStatus] = useState<NetworkStatus | null>(null);\n" \o
  "\n" \o
  "  const appo = getAppo();\n" \o
  "\n" \o
  "  const refresh = useCallback(async () => {\n" \o
  "    const networkStatus = await appo.network.getStatus();\n" \o
  "    setStatus(networkStatus);\n" \o
  "    return networkStatus;\n" \o
  "  }, []);\n" \o
  "\n" \o
  "  useEffect(() => {\n" \o
  "    refresh();\n" \o
  "    return appo.network.onChange((newStatus) => {\n" \o
  "      setStatus(newStatus);\n" \o
  "    });\n" \o
  "  }, []);\n" \o
  "\n" \o
  "  return {\n" \o
  "    status,\n" \o
  "    isOnline: status?.isConnected ?? true,\n" \o
  "    refresh,\n" \o
  "  };\n" \o
  "}"

\* part_001: hookTemplates.device, after .trim()
hookTemplate_device(hookName, includeLoading, includeError) ==
  "import { useState, useEffect } from 'react';\n" \o
  "import { getAppo } from '@appolabs/appo';\n" \o
  "\n" \o
  "interface DeviceInfo {\n" \o
  "  platform: 'ios' | 'android' | 'web';\n" \o
  "  osVersion: string;\n" \o
  "  appVersion: string;\n" \o
  "  deviceId: string;\n" \o
  "  deviceName: string;\n" \o
  "  isTablet: boolean;\n" \o
  "}\n" \o
  "\n" \o
  "interface UseDeviceReturn {\n" \o
  "  info: DeviceInfo | null;\n" \o
  "  isNative: boolean;\n" \o
  "  " \o (IF includeLoading THEN "isLoading: boolean;" ELSE "") \o "\n" \o
  "  " \o (IF includeError THEN "error: Error | null;" ELSE "") \o "\n" \o
  "}\n" \o
  "\n" \o
  "export function " \o hookName \o "(): UseDeviceReturn {\n" \o
  "  const [info, setInfo] = useState<DeviceInfo | null>(null);\n" \o
  "  " \o (IF includeLoading THEN "const [isLoading, setIsLoading] = useState(true);" ELSE "") \o "\n" \o
  "  " \o (IF includeError THEN "const [error, setError] = useState<Error | null>(null);" ELSE "") \o "\n" \o
  "\n" \o
  "  const appo = getAppo();\n" \o
  "\n" \o
  "  useEffect(() => {\n" \o
  "    const fetchInfo = async () => {\n" \o
  "      " \o (IF includeLoading THEN "setIsLoading(true);" ELSE "") \o "\n" \o
  "      " \o (IF includeError THEN "setError(null);" ELSE "") \o "\n" \o
  "      try {\n" \o
  "        const deviceInfo = await appo.device.getInfo();\n" \o
  "        setInfo(deviceInfo);\n" \o
  "      } catch (err) {\n" \o
  "        " \o (IF includeError THEN "setError(err instanceof Error ? err : new Error('Failed to get device info'));" ELSE "") \o "\n" \o
  "      } finally {\n" \o
  "        " \o (IF includeLoading THEN "setIsLoading(false);" ELSE "") \o "\n" \o
  "      }\n" \o
  "    };\n" \o
  "    fetchInfo();\n" \o
  "  }, []);\n" \o
  "\n" \o
  "  return {\n" \o
  "    info,\n" \o
  "    isNative: appo.isNative,\n" \o
  "    " \o (IF includeLoading THEN "isLoading," ELSE "") \o "\n" \o
  "    " \o (IF includeError THEN "error," ELSE "") \o "\n" \o
  "  };\n" \o
  "}"

\* part_001:575-1120  the keys of hookTemplates with the default each
\* template gives hookName
hookDefaults ==
  << [ key |-> "push",       value |-> "usePushNotifications" ],
     [ key |-> "biometrics", value |-> "useBiometrics" ],
     [ key |-> "camera",     value |-> "useCamera" ],
     [ key |-> "location",   value |-> "useLocation" ],
     [ key |-> "haptics",    value |-> "useHaptics" ],
     [ key |-> "storage",    value |-> "useStorage" ],
     [ key |-> "share",      value |-> "useShare" ],
     [ key |-> "network",    value |-> "useNetwork" ],
     [ key |-> "device",     value |-> "useDevice" ] >>

\* hookTemplates[feature]({ feature, hookName, includeLoading, includeError })
\* for an own key
hookTemplates(feature, hookNameArg, includeLoadingArg, includeErrorArg) ==
  LET hookName == toString(orDefault(hookNameArg, Str(ownEntry(hookDefaults, feature).value)))
      includeLoading == truthy(orDefault(includeLoadingArg, Bool(TRUE)))
      includeError == truthy(orDefault(includeErrorArg, Bool(TRUE)))
  IN  CASE feature = "push"       -> hookTemplate_push(hookName, includeLoading, includeError)
        [] feature = "biometrics" -> hookTemplate_biometrics(hookName, includeLoading, includeError)
        [] feature = "camera"     -> hookTemplate_camera(hookName, includeLoading, includeError)
        [] feature = "location"   -> hookTemplate_location(hookName, includeLoading, includeError)
        [] feature = "haptics"    -> hookTemplate_haptics(hookName, includeLoading, includeError)
        [] feature = "storage"    -> hookTemplate_storage(hookName, includeLoading, includeError)
        [] feature = "share"      -> hookTemplate_share(hookName, includeLoading, includeError)
        [] feature = "network"    -> hookTemplate_network(hookName, includeLoading, includeError)
        [] feature = "device"     -> hookTemplate_device(hookName, includeLoading, includeError)

\* part_001:1150-1165  the report around the generated hook
hookReport(code, name, feature) ==
  "%%%typescript\n" \o
  code \o "\n" \o
  "%%%\n" \o
  "\n" \o
  "## Usage Example\n" \o
  "\n" \o
  "%%%tsx\n" \o
  "import { " \o name \o " } from './hooks/" \o feature \o "';\n" \o
  "\n" \o
  "function MyComponent() {\n" \o
  "  const hook = " \o name \o "();\n" \o
  "\n" \o
  "  // Use the hook methods and state\n" \o
  "  return <div>...</div>;\n" \o
  "}\n" \o
  "%%%"

\* part_001:1122-1169
generateHook(args) ==
  LET feature == field(args, "feature")
      hookName == field(args, "hookName")
      includeLoading == orDefault(field(args, "includeLoading"), Bool(TRUE))
      includeError == orDefault(field(args, "includeError"), Bool(TRUE))
      key == toString(feature)
      kind == lookupKind(hookDefaults, feature)
      name == IF truthy(hookName) THEN toString(hookName) ELSE "use" \o capitalize(key)
  IN  IF ~truthy(feature) \/ kind = "undefined"
        THEN Return("Invalid feature. Available features: " \o join(keysOf(hookDefaults), ", "))
      ELSE IF kind = "inherited"
        THEN (IF key \in InheritedNotCallable
                THEN Throw("TypeError")
                ELSE Return(hookReport(inheritedCallText(key), name, key)))
      ELSE Return(hookReport(hookTemplates(key, hookName, includeLoading, includeError), name, key))

(* ---------------- generate-component.ts: generateComponent ------------- *)

\* generate-component.ts: the buttonClass local of componentTemplates.push
buttonClass_push(styling) ==
    IF styling = Str("tailwind") THEN "className=\"inline-flex items-center gap-2 rounded-lg bg-blue-600 px-4 py-2 text-white hover:bg-blue-700 disabled:opacity-50\""
    ELSE IF styling = Str("css") THEN "className=\"push-button\""
    ELSE ""

\* generate-component.ts:14-93  componentTemplates.push, after .trim()
componentTemplate_push(componentName, styling) ==
  "import { useState } from 'react';\n" \o
  "import { getAppo, type PermissionStatus } from '@appolabs/appo';\n" \o
  "\n" \o
  "interface " \o componentName \o "Props {\n" \o
  "  onTokenReceived?: (token: string) => void;\n" \o
  "  onPermissionChange?: (status: PermissionStatus) => void;\n" \o
  "}\n" \o
  "\n" \o
  "export function " \o componentName \o "({ onTokenReceived, onPermissionChange }: " \o componentName \o "Props) {\n" \o
  "  const [isLoading, setIsLoading] = useState(false);\n" \o
  "  const [permission, setPermission] = useState<PermissionStatus | null>(null);\n" \o
  "  const [token, setToken] = useState<string | null>(null);\n" \o
  "\n" \o
  "  const appo = getAppo();\n" \o
  "\n" \o
  "  const handleEnablePush = async () => {\n" \o
  "    setIsLoading(true);\n" \o
  "    try {\n" \o
  "      const status = await appo.push.requestPermission();\n" \o
  "      setPermission(status);\n" \o
  "      onPermissionChange?.(status);\n" \o
  "\n" \o
  "      if (status === 'granted') {\n" \o
  "        const pushToken = await appo.push.getToken();\n" \o
  "        if (pushToken) {\n" \o
  "          setToken(pushToken);\n" \o
  "          onTokenReceived?.(pushToken);\n" \o
  "        }\n" \o
  "      }\n" \o
  "    } catch (error) {\n" \o
  "      console.error('Failed to enable push notifications:', error);\n" \o
  "    } finally {\n" \o
  "      setIsLoading(false);\n" \o
  "    }\n" \o
  "  };\n" \o
  "\n" \o
  "  if (token) {\n" \o
  "    return (\n" \o
  "      <div " \o (IF styling = Str("tailwind") THEN "className=\"flex items-center gap-2 text-green-600\"" ELSE "") \o ">\n" \o
  "        <svg " \o (IF styling = Str("tailwind") THEN "className=\"h-5 w-5\"" ELSE "") \o " fill=\"currentColor\" viewBox=\"0 0 20 20\">\n" \o
  "          <path fillRule=\"evenodd\" d=\"M10 18a8 8 0 100-16 8 8 0 000 16zm3.707-9.293a1 1 0 00-1.414-1.414L9 10.586 7.707 9.293a1 1 0 00-1.414 1.414l2 2a1 1 0 001.414 0l4-4z\" clipRule=\"evenodd\" />\n" \o
  "        </svg>\n" \o
  "        <span>Push notifications enabled</span>\n" \o
  "      </div>\n" \o
  "    );\n" \o
  "  }\n" \o
  "\n" \o
  "  return (\n" \o
  "    <button\n" \o
  "      onClick={handleEnablePush}\n" \o
  "      disabled={isLoading || permission === 'denied'}\n" \o
  "      " \o buttonClass_push(styling) \o "\n" \o
  "    >\n" \o
  "      {isLoading ? (\n" \o
  "        <>\n" \o
  "          <svg " \o (IF styling = Str("tailwind") THEN "className=\"h-4 w-4 animate-spin\"" ELSE "") \o " fill=\"none\" viewBox=\"0 0 24 24\">\n" \o
  "            <circle className=\"opacity-25\" cx=\"12\" cy=\"12\" r=\"10\" stroke=\"currentColor\" strokeWidth=\"4\" />\n" \o
  "            <path className=\"opacity-75\" fill=\"currentColor\" d=\"M4 12a8 8 0 018-8V0C5.373 0 0 5.373 0 12h4z\" />\n" \o
  "          </svg>\n" \o
  "          Enabling...\n" \o
  "        </>\n" \o
  "      ) : permission === 'denied' ? (\n" \o
  "        'Notifications blocked'\n" \o
  "      ) : (\n" \o
  "        'Enable push notifications'\n" \o
  "      )}\n" \o
  "    </button>\n" \o
  "  );\n" \o
  "}"

\* generate-component.ts: the buttonClass local of componentTemplates.biometrics
buttonClass_biometrics(styling) ==
    IF styling = Str("tailwind") THEN "className=\"inline-flex items-center gap-2 rounded-lg bg-purple-600 px-4 py-2 text-white hover:bg-purple-700 disabled:opacity-50\""
    ELSE ""

\* generate-component.ts:95-169  componentTemplates.biometrics, after .trim()
componentTemplate_biometrics(componentName, styling) ==
  "import { useState, useEffect } from 'react';\n" \o
  "import { getAppo } from '@appolabs/appo';\n" \o
  "\n" \o
  "interface " \o componentName \o "Props {\n" \o
  "  reason?: string;\n" \o
  "  onSuccess?: () => void;\n" \o
  "  onError?: (error: Error) => void;\n" \o
  "}\n" \o
  "\n" \o
  "export function " \o componentName \o "({\n" \o
  "  reason = 'Authenticate to continue',\n" \o
  "  onSuccess,\n" \o
  "  onError,\n" \o
  "}: " \o componentName \o "Props) {\n" \o
  "  const [isAvailable, setIsAvailable] = useState<boolean | null>(null);\n" \o
  "  const [isLoading, setIsLoading] = useState(false);\n" \o
  "\n" \o
  "  const appo = getAppo();\n" \o
  "\n" \o
  "  useEffect(() => {\n" \o
  "    appo.biometrics.isAvailable().then(setIsAvailable);\n" \o
  "  }, []);\n" \o
  "\n" \o
  "  const handleAuthenticate = async () => {\n" \o
  "    setIsLoading(true);\n" \o
  "    try {\n" \o
  "      const success = await appo.biometrics.authenticate(reason);\n" \o
  "      if (success) {\n" \o
  "        onSuccess?.();\n" \o
  "      } else {\n" \o
  "        onError?.(new Error('Authentication failed'));\n" \o
  "      }\n" \o
  "    } catch (error) {\n" \o
  "      onError?.(error instanceof Error ? error : new Error('Authentication error'));\n" \o
  "    } finally {\n" \o
  "      setIsLoading(false);\n" \o
  "    }\n" \o
  "  };\n" \o
  "\n" \o
  "  if (isAvailable === null) {\n" \o
  "    return <div " \o (IF styling = Str("tailwind") THEN "className=\"text-gray-500\"" ELSE "") \o ">Checking biometrics...</div>;\n" \o
  "  }\n" \o
  "\n" \o
  "  if (!isAvailable) {\n" \o
  "    return <div " \o (IF styling = Str("tailwind") THEN "className=\"text-gray-500\"" ELSE "") \o ">Biometric auth not available</div>;\n" \o
  "  }\n" \o
  "\n" \o
  "  return (\n" \o
  "    <button\n" \o
  "      onClick={handleAuthenticate}\n" \o
  "      disabled={isLoading}\n" \o
  "      " \o buttonClass_biometrics(styling) \o "\n" \o
  "    >\n" \o
  "      {isLoading ? (\n" \o
  "        'Authenticating...'\n" \o
  "      ) : (\n" \o
  "        <>\n" \o
  "          <svg " \o (IF styling = Str("tailwind") THEN "className=\"h-5 w-5\"" ELSE "") \o " fill=\"none\" stroke=\"currentColor\" viewBox=\"0 0 24 24\">\n" \o
  "            <path strokeLinecap=\"round\" strokeLinejoin=\"round\" strokeWidth={2} d=\"M12 11c0 3.517-1.009 6.799-2.753 9.571m-3.44-2.04l.054-.09A13.916 13.916 0 008 11a4 4 0 118 0c0 1.017-.07 2.019-.203 3m-2.118 6.844A21.88 21.88 0 0015.171 17m3.839 1.132c.645-2.266.99-4.659.99-7.132A8 8 0 008 4.07M3 15.364c.64-1.319 1-2.8 1-4.364 0-1.457.39-2.823 1.07-4\" />\n" \o
  "          </svg>\n" \o
  "          Authenticate with biometrics\n" \o
  "        </>\n" \o
  "      )}\n" \o
  "    </button>\n" \o
  "  );\n" \o
  "}"

\* generate-component.ts:171-254  componentTemplates.camera, after .trim()
componentTemplate_camera(componentName, styling) ==
  "import { useState } from 'react';\n" \o
  "import { getAppo, type PermissionStatus } from '@appolabs/appo';\n" \o
  "\n" \o
  "interface Photo {\n" \o
  "  uri: string;\n" \o
  "  base64?: string;\n" \o
  "  width: number;\n" \o
  "  height: number;\n" \o
  "}\n" \o
  "\n" \o
  "interface " \o componentName \o "Props {\n" \o
  "  onCapture?: (photo: Photo) => void;\n" \o
  "}\n" \o
  "\n" \o
  "export function " \o componentName \o "({ onCapture }: " \o componentName \o "Props) {\n" \o
  "  const [permission, setPermission] = useState<PermissionStatus | null>(null);\n" \o
  "  const [photo, setPhoto] = useState<Photo | null>(null);\n" \o
  "  const [isLoading, setIsLoading] = useState(false);\n" \o
  "\n" \o
  "  const appo = getAppo();\n" \o
  "\n" \o
  "  const handleRequestPermission = async () => {\n" \o
  "    const status = await appo.camera.requestPermission();\n" \o
  "    setPermission(status);\n" \o
  "  };\n" \o
  "\n" \o
  "  const handleTakePicture = async () => {\n" \o
  "    setIsLoading(true);\n" \o
  "    try {\n" \o
  "      const result = await appo.camera.takePicture();\n" \o
  "      if (result) {\n" \o
  "        setPhoto(result);\n" \o
  "        onCapture?.(result);\n" \o
  "      }\n" \o
  "    } finally {\n" \o
  "      setIsLoading(false);\n" \o
  "    }\n" \o
  "  };\n" \o
  "\n" \o
  "  if (permission === null) {\n" \o
  "    return (\n" \o
  "      <button\n" \o
  "        onClick={handleRequestPermission}\n" \o
  "        " \o (IF styling = Str("tailwind") THEN "className=\"rounded-lg bg-gray-600 px-4 py-2 text-white hover:bg-gray-700\"" ELSE "") \o "\n" \o
  "      >\n" \o
  "        Allow camera access\n" \o
  "      </button>\n" \o
  "    );\n" \o
  "  }\n" \o
  "\n" \o
  "  if (permission === 'denied') {\n" \o
  "    return <p " \o (IF styling = Str("tailwind") THEN "className=\"text-red-500\"" ELSE "") \o ">Camera access denied</p>;\n" \o
  "  }\n" \o
  "\n" \o
  "  return (\n" \o
  "    <div " \o (IF styling = Str("tailwind") THEN "className=\"space-y-4\"" ELSE "") \o ">\n" \o
  "      {photo ? (\n" \o
  "        <div " \o (IF styling = Str("tailwind") THEN "className=\"space-y-2\"" ELSE "") \o ">\n" \o
  "          <img\n" \o
  "            src={photo.uri}\n" \o
  "            alt=\"Captured\"\n" \o
  "            " \o (IF styling = Str("tailwind") THEN "className=\"max-w-full rounded-lg\"" ELSE "") \o "\n" \o
  "          />\n" \o
  "          <button\n" \o
  "            onClick={() => setPhoto(null)}\n" \o
  "            " \o (IF styling = Str("tailwind") THEN "className=\"rounded bg-gray-200 px-3 py-1 text-sm hover:bg-gray-300\"" ELSE "") \o "\n" \o
  "          >\n" \o
  "            Clear\n" \o
  "          </button>\n" \o
  "        </div>\n" \o
  "      ) : (\n" \o
  "        <button\n" \o
  "          onClick={handleTakePicture}\n" \o
  "          disabled={isLoading}\n" \o
  "          " \o (IF styling = Str("tailwind") THEN "className=\"inline-flex items-center gap-2 rounded-lg bg-green-600 px-4 py-2 text-white hover:bg-green-700 disabled:opacity-50\"" ELSE "") \o "\n" \o
  "        >\n" \o
  "          {isLoading ? 'Capturing...' : 'Take photo'}\n" \o
  "        </button>\n" \o
  "      )}\n" \o
  "    </div>\n" \o
  "  );\n" \o
  "}"

\* generate-component.ts:256-317  componentTemplates.location, after .trim()
componentTemplate_location(componentName, styling) ==
  "import { useState } from 'react';\n" \o
  "import { getAppo, type PermissionStatus } from '@appolabs/appo';\n" \o
  "\n" \o
  "interface Position {\n" \o
  "  latitude: number;\n" \o
  "  longitude: number;\n" \o
  "  accuracy: number;\n" \o
  "}\n" \o
  "\n" \o
  "interface " \o componentName \o "Props {\n" \o
  "  onLocation?: (position: Position) => void;\n" \o
  "}\n" \o
  "\n" \o
  "export function " \o componentName \o "({ onLocation }: " \o componentName \o "Props) {\n" \o
  "  const [permission, setPermission] = useState<PermissionStatus | null>(null);\n" \o
  "  const [position, setPosition] = useState<Position | null>(null);\n" \o
  "  const [isLoading, setIsLoading] = useState(false);\n" \o
  "\n" \o
  "  const appo = getAppo();\n" \o
  "\n" \o
  "  const handleGetLocation = async () => {\n" \o
  "    setIsLoading(true);\n" \o
  "    try {\n" \o
  "      if (permission !== 'granted') {\n" \o
  "        const status = await appo.location.requestPermission();\n" \o
  "        setPermission(status);\n" \o
  "        if (status !== 'granted') return;\n" \o
  "      }\n" \o
  "\n" \o
  "      const pos = await appo.location.getCurrentPosition();\n" \o
  "      if (pos) {\n" \o
  "        setPosition(pos);\n" \o
  "        onLocation?.(pos);\n" \o
  "      }\n" \o
  "    } finally {\n" \o
  "      setIsLoading(false);\n" \o
  "    }\n" \o
  "  };\n" \o
  "\n" \o
  "  return (\n" \o
  "    <div " \o (IF styling = Str("tailwind") THEN "className=\"space-y-2\"" ELSE "") \o ">\n" \o
  "      <button\n" \o
  "        onClick={handleGetLocation}\n" \o
  "        disabled={isLoading || permission === 'denied'}\n" \o
  "        " \o (IF styling = Str("tailwind") THEN "className=\"inline-flex items-center gap-2 rounded-lg bg-teal-600 px-4 py-2 text-white hover:bg-teal-700 disabled:opacity-50\"" ELSE "") \o "\n" \o
  "      >\n" \o
  "        <svg " \o (IF styling = Str("tailwind") THEN "className=\"h-5 w-5\"" ELSE "") \o " fill=\"none\" stroke=\"currentColor\" viewBox=\"0 0 24 24\">\n" \o
  "          <path strokeLinecap=\"round\" strokeLinejoin=\"round\" strokeWidth={2} d=\"M17.657 16.657L13.414 20.9a1.998 1.998 0 01-2.827 0l-4.244-4.243a8 8 0 1111.314 0z\" />\n" \o
  "          <path strokeLinecap=\"round\" strokeLinejoin=\"round\" strokeWidth={2} d=\"M15 11a3 3 0 11-6 0 3 3 0 016 0z\" />\n" \o
  "        </svg>\n" \o
  "        {isLoading ? 'Getting location...' : 'Get my location'}\n" \o
  "      </button>\n" \o
  "      {position && (\n" \o
  "        <p " \o (IF styling = Str("tailwind") THEN "className=\"text-sm text-gray-600\"" ELSE "") \o ">\n" \o
  "          {position.latitude.toFixed(6)}, {position.longitude.toFixed(6)}\n" \o
  "        </p>\n" \o
  "      )}\n" \o
  "    </div>\n" \o
  "  );\n" \o
  "}"

\* generate-component.ts:319-366  componentTemplates.haptics, after .trim()
componentTemplate_haptics(componentName, styling) ==
  "import { getAppo } from '@appolabs/appo';\n" \o
  "\n" \o
  "export function " \o componentName \o "() {\n" \o
  "  const appo = getAppo();\n" \o
  "\n" \o
  "  return (\n" \o
  "    <div " \o (IF styling = Str("tailwind") THEN "className=\"flex flex-wrap gap-2\"" ELSE "") \o ">\n" \o
  "      <button\n" \o
  "        onClick={() => appo.haptics.impact('light')}\n" \o
  "        " \o (IF styling = Str("tailwind") THEN "className=\"rounded bg-gray-100 px-3 py-2 text-sm hover:bg-gray-200\"" ELSE "") \o "\n" \o
  "      >\n" \o
  "        Light tap\n" \o
  "      </button>\n" \o
  "      <button\n" \o
  "        onClick={() => appo.haptics.impact('medium')}\n" \o
  "        " \o (IF styling = Str("tailwind") THEN "className=\"rounded bg-gray-200 px-3 py-2 text-sm hover:bg-gray-300\"" ELSE "") \o "\n" \o
  "      >\n" \o
  "        Medium tap\n" \o
  "      </button>\n" \o
  "      <button\n" \o
  "        onClick={() => appo.haptics.impact('heavy')}\n" \o
  "        " \o (IF styling = Str("tailwind") THEN "className=\"rounded bg-gray-300 px-3 py-2 text-sm hover:bg-gray-400\"" ELSE "") \o "\n" \o
  "      >\n" \o
  "        Heavy tap\n" \o
  "      </button>\n" \o
  "      <button\n" \o
  "        onClick={() => appo.haptics.notification('success')}\n" \o
  "        " \o (IF styling = Str("tailwind") THEN "className=\"rounded bg-green-100 px-3 py-2 text-sm text-green-700 hover:bg-green-200\"" ELSE "") \o "\n" \o
  "      >\n" \o
  "        Success\n" \o
  "      </button>\n" \o
  "      <button\n" \o
  "        onClick={() => appo.haptics.notification('warning')}\n" \o
  "        " \o (IF styling = Str("tailwind") THEN "className=\"rounded bg-yellow-100 px-3 py-2 text-sm text-yellow-700 hover:bg-yellow-200\"" ELSE "") \o "\n" \o
  "      >\n" \o
  "        Warning\n" \o
  "      </button>\n" \o
  "      <button\n" \o
  "        onClick={() => appo.haptics.notification('error')}\n" \o
  "        " \o (IF styling = Str("tailwind") THEN "className=\"rounded bg-red-100 px-3 py-2 text-sm text-red-700 hover:bg-red-200\"" ELSE "") \o "\n" \o
  "      >\n" \o
  "        Error\n" \o
  "      </button>\n" \o
  "    </div>\n" \o
  "  );\n" \o
  "}"

\* generate-component.ts:368-427  componentTemplates.storage, after .trim()
componentTemplate_storage(componentName, styling) ==
  "import { useState } from 'react';\n" \o
  "import { getAppo } from '@appolabs/appo';\n" \o
  "\n" \o
  "interface " \o componentName \o "Props {\n" \o
  "  storageKey?: string;\n" \o
  "}\n" \o
  "\n" \o
  "export function " \o componentName \o "({ storageKey = 'demo-value' }: " \o componentName \o "Props) {\n" \o
  "  const [value, setValue] = useState('');\n" \o
  "  const [stored, setStored] = useState<string | null>(null);\n" \o
  "\n" \o
  "  const appo = getAppo();\n" \o
  "\n" \o
  "  const handleSave = async () => {\n" \o
  "    await appo.storage.set(storageKey, value);\n" \o
  "    setStored(value);\n" \o
  "  };\n" \o
  "\n" \o
  "  const handleLoad = async () => {\n" \o
  "    const loaded = await appo.storage.get(storageKey);\n" \o
  "    setStored(loaded);\n" \o
  "    if (loaded) setValue(loaded);\n" \o
  "  };\n" \o
  "\n" \o
  "  const handleDelete = async () => {\n" \o
  "    await appo.storage.delete(storageKey);\n" \o
  "    setStored(null);\n" \o
  "    setValue('');\n" \o
  "  };\n" \o
  "\n" \o
  "  return (\n" \o
  "    <div " \o (IF styling = Str("tailwind") THEN "className=\"space-y-4\"" ELSE "") \o ">\n" \o
  "      <div " \o (IF styling = Str("tailwind") THEN "className=\"flex gap-2\"" ELSE "") \o ">\n" \o
  "        <input\n" \o
  "          type=\"text\"\n" \o
  "          value={value}\n" \o
  "          onChange={(e) => setValue(e.target.value)}\n" \o
  "          placeholder=\"Enter a value\"\n" \o
  "          " \o (IF styling = Str("tailwind") THEN "className=\"flex-1 rounded border px-3 py-2\"" ELSE "") \o "\n" \o
  "        />\n" \o
  "        <button onClick={handleSave} " \o (IF styling = Str("tailwind") THEN "className=\"rounded bg-blue-600 px-4 py-2 text-white hover:bg-blue-700\"" ELSE "") \o ">\n" \o
  "          Save\n" \o
  "        </button>\n" \o
  "      </div>\n" \o
  "      <div " \o (IF styling = Str("tailwind") THEN "className=\"flex gap-2\"" ELSE "") \o ">\n" \o
  "        <button onClick={handleLoad} " \o (IF styling = Str("tailwind") THEN "className=\"rounded bg-gray-200 px-3 py-2 hover:bg-gray-300\"" ELSE "") \o ">\n" \o
  "          Load\n" \o
  "        </button>\n" \o
  "        <button onClick={handleDelete} " \o (IF styling = Str("tailwind") THEN "className=\"rounded bg-red-100 px-3 py-2 text-red-700 hover:bg-red-200\"" ELSE "") \o ">\n" \o
  "          Delete\n" \o
  "        </button>\n" \o
  "      </div>\n" \o
  "      {stored !== null && (\n" \o
  "        <p " \o (IF styling = Str("tailwind") THEN "className=\"text-sm text-gray-600\"" ELSE "") \o ">Stored: {stored}</p>\n" \o
  "      )}\n" \o
  "    </div>\n" \o
  "  );\n" \o
  "}"

\* generate-component.ts:429-470  componentTemplates.share, after .trim()
componentTemplate_share(componentName, styling) ==
  "import { useState } from 'react';\n" \o
  "import { getAppo } from '@appolabs/appo';\n" \o
  "\n" \o
  "interface " \o componentName \o "Props {\n" \o
  "  title?: string;\n" \o
  "  message?: string;\n" \o
  "  url?: string;\n" \o
  "}\n" \o
  "\n" \o
  "export function " \o componentName \o "({\n" \o
  "  title = 'Check this out!',\n" \o
  "  message = '',\n" \o
  "  url = window.location.href,\n" \o
  "}: " \o componentName \o "Props) {\n" \o
  "  const [isLoading, setIsLoading] = useState(false);\n" \o
  "\n" \o
  "  const appo = getAppo();\n" \o
  "\n" \o
  "  const handleShare = async () => {\n" \o
  "    setIsLoading(true);\n" \o
  "    try {\n" \o
  "      await appo.share.open({ title, message, url });\n" \o
  "    } finally {\n" \o
  "      setIsLoading(false);\n" \o
  "    }\n" \o
  "  };\n" \o
  "\n" \o
  "  return (\n" \o
  "    <button\n" \o
  "      onClick={handleShare}\n" \o
  "      disabled={isLoading}\n" \o
  "      " \o (IF styling = Str("tailwind") THEN "className=\"inline-flex items-center gap-2 rounded-lg bg-indigo-600 px-4 py-2 text-white hover:bg-indigo-700 disabled:opacity-50\"" ELSE "") \o "\n" \o
  "    >\n" \o
  "      <svg " \o (IF styling = Str("tailwind") THEN "className=\"h-5 w-5\"" ELSE "") \o " fill=\"none\" stroke=\"currentColor\" viewBox=\"0 0 24 24\">\n" \o
  "        <path strokeLinecap=\"round\" strokeLinejoin=\"round\" strokeWidth={2} d=\"M8.684 13.342C8.886 12.938 9 12.482 9 12c0-.482-.114-.938-.316-1.342m0 2.684a3 3 0 110-2.684m0 2.684l6.632 3.316m-6.632-6l6.632-3.316m0 0a3 3 0 105.367-2.684 3 3 0 00-5.367 2.684zm0 9.316a3 3 0 105.368 2.684 3 3 0 00-5.368-2.684z\" />\n" \o
  "      </svg>\n" \o
  "      {isLoading ? 'Sharing...' : 'Share'}\n" \o
  "    </button>\n" \o
  "  );\n" \o
  "}"

\* generate-component.ts:472-500  componentTemplates.network, after .trim()
componentTemplate_network(componentName, styling) ==
  "import { useState, useEffect } from 'react';\n" \o
  "import { getAppo } from '@appolabs/appo';\n" \o
  "\n" \o
  "interface NetworkState {\n" \o
  "  isConnected: boolean;\n" \o
  "  type: string;\n" \o
  "}\n" \o
  "\n" \o
  "export function " \o componentName \o "() {\n" \o
  "  const [network, setNetwork] = useState<NetworkState | null>(null);\n" \o
  "\n" \o
  "  const appo = getAppo();\n" \o
  "\n" \o
  "  useEffect(() => {\n" \o
  "    appo.network.getStatus().then(setNetwork);\n" \o
  "    return appo.network.onChange(setNetwork);\n" \o
  "  }, []);\n" \o
  "\n" \o
  "  if (!network) return null;\n" \o
  "\n" \o
  "  return (\n" \o
  "    <div " \o (IF styling = Str("tailwind") THEN "className={%inline-flex items-center gap-2 rounded-full px-3 py-1 text-sm ${network.isConnected ? 'bg-green-100 text-green-700' : 'bg-red-100 text-red-700'}%}" ELSE "") \o ">\n" \o
  "      <span " \o (IF styling = Str("tailwind") THEN "className={%h-2 w-2 rounded-full ${network.isConnected ? 'bg-green-500' : 'bg-red-500'}%}" ELSE "") \o " />\n" \o
  "      {network.isConnected ? %Online (${network.type})% : 'Offline'}\n" \o
  "    </div>\n" \o
  "  );\n" \o
  "}"

\* generate-component.ts:502-558  componentTemplates.device, after .trim()
componentTemplate_device(componentName, styling) ==
  "import { useState, useEffect } from 'react';\n" \o
  "import { getAppo } from '@appolabs/appo';\n" \o
  "\n" \o
  "interface DeviceData {\n" \o
  "  platform: string;\n" \o
  "  osVersion: string;\n" \o
  "  appVersion: string;\n" \o
  "  deviceName: string;\n" \o
  "  isTablet: boolean;\n" \o
  "}\n" \o
  "\n" \o
  "export function " \o componentName \o "() {\n" \o
  "  const [device, setDevice] = useState<DeviceData | null>(null);\n" \o
  "\n" \o
  "  const appo = getAppo();\n" \o
  "\n" \o
  "  useEffect(() => {\n" \o
  "    appo.device.getInfo().then(setDevice);\n" \o
  "  }, []);\n" \o
  "\n" \o
  "  if (!device) {\n" \o
  "    return <div " \o (IF styling = Str("tailwind") THEN "className=\"animate-pulse text-gray-400\"" ELSE "") \o ">Loading device info...</div>;\n" \o
  "  }\n" \o
  "\n" \o
  "  return (\n" \o
  "    <div " \o (IF styling = Str("tailwind") THEN "className=\"rounded-lg bg-gray-50 p-4\"" ELSE "") \o ">\n" \o
  "      <h3 " \o (IF styling = Str("tailwind") THEN "className=\"mb-3 font-semibold\"" ELSE "") \o ">Device Information</h3>\n" \o
  "      <dl " \o (IF styling = Str("tailwind") THEN "className=\"space-y-2 text-sm\"" ELSE "") \o ">\n" \o
  "        <div " \o (IF styling = Str("tailwind") THEN "className=\"flex justify-between\"" ELSE "") \o ">\n" \o
  "          <dt " \o (IF styling = Str("tailwind") THEN "className=\"text-gray-500\"" ELSE "") \o ">Platform</dt>\n" \o
  "          <dd " \o (IF styling = Str("tailwind") THEN "className=\"font-medium\"" ELSE "") \o ">{device.platform}</dd>\n" \o
  "        </div>\n" \o
  "        <div " \o (IF styling = Str("tailwind") THEN "className=\"flex justify-between\"" ELSE "") \o ">\n" \o
  "          <dt " \o (IF styling = Str("tailwind") THEN "className=\"text-gray-500\"" ELSE "") \o ">OS Version</dt>\n" \o
  "          <dd " \o (IF styling = Str("tailwind") THEN "className=\"font-medium\"" ELSE "") \o ">{device.osVersion}</dd>\n" \o
  "        </div>\n" \o
  "        <div " \o (IF styling = Str("tailwind") THEN "className=\"flex justify-between\"" ELSE "") \o ">\n" \o
  "          <dt " \o (IF styling = Str("tailwind") THEN "className=\"text-gray-500\"" ELSE "") \o ">App Version</dt>\n" \o
  "          <dd " \o (IF styling = Str("tailwind") THEN "className=\"font-medium\"" ELSE "") \o ">{device.appVersion}</dd>\n" \o
  "        </div>\n" \o
  "        <div " \o (IF styling = Str("tailwind") THEN "className=\"flex justify-between\"" ELSE "") \o ">\n" \o
  "          <dt " \o (IF styling = Str("tailwind") THEN "className=\"text-gray-500\"" ELSE "") \o ">Device</dt>\n" \o
  "          <dd " \o (IF styling = Str("tailwind") THEN "className=\"font-medium\"" ELSE "") \o ">{device.deviceName}</dd>\n" \o
  "        </div>\n" \o
  "        <div " \o (IF styling = Str("tailwind") THEN "className=\"flex justify-between\"" ELSE "") \o ">\n" \o
  "          <dt " \o (IF styling = Str("tailwind") THEN "className=\"text-gray-500\"" ELSE "") \o ">Type</dt>\n" \o
  "          <dd " \o (IF styling = Str("tailwind") THEN "className=\"font-medium\"" ELSE "") \o ">{device.isTablet ? 'Tablet' : 'Phone'}</dd>\n" \o
  "        </div>\n" \o
  "      </dl>\n" \o
  "      {appo.isNative && (\n" \o
  "        <p " \o (IF styling = Str("tailwind") THEN "className=\"mt-3 text-xs text-green-600\"" ELSE "") \o ">Running in native app</p>\n" \o
  "      )}\n" \o
  "    </div>\n" \o
  "  );\n" \o
  "}"

\* generate-component.ts:10-559  the keys of componentTemplates with the
\* default each template gives componentName
componentDefaults ==
  << [ key |-> "push",       value |-> "PushNotificationButton" ],
     [ key |-> "biometrics", value |-> "BiometricAuthButton" ],
     [ key |-> "camera",     value |-> "CameraCapture" ],
     [ key |-> "location",   value |-> "LocationButton" ],
     [ key |-> "haptics",    value |-> "HapticButtons" ],
     [ key |-> "storage",    value |-> "StorageDemo" ],
     [ key |-> "share",      value |-> "ShareButton" ],
     [ key |-> "network",    value |-> "NetworkStatus" ],
     [ key |-> "device",     value |-> "DeviceInfo" ] >>

\* componentTemplates[feature]({ feature, componentName, styling, variant })
\* for an own key
componentTemplates(feature, componentNameArg, stylingArg) ==
  LET componentName ==
        toString(orDefault(componentNameArg, Str(ownEntry(componentDefaults, feature).value)))
      styling == orDefault(stylingArg, Str("tailwind"))
  IN  CASE feature = "push"       -> componentTemplate_push(componentName, styling)
        [] feature = "biometrics" -> componentTemplate_biometrics(componentName, styling)
        [] feature = "camera"     -> componentTemplate_camera(componentName, styling)
        [] feature = "location"   -> componentTemplate_location(componentName, styling)
        [] feature = "haptics"    -> componentTemplate_haptics(componentName, styling)
        [] feature = "storage"    -> componentTemplate_storage(componentName, styling)
        [] feature = "share"      -> componentTemplate_share(componentName, styling)
        [] feature = "network"    -> componentTemplate_network(componentName, styling)
        [] feature = "device"     -> componentTemplate_device(componentName, styling)

\* generate-component.ts:596-610  the report around the generated component
componentReport(code, defaultName, feature) ==
  "%%%tsx\n" \o
  code \o "\n" \o
  "%%%\n" \o
  "\n" \o
  "## Usage\n" \o
  "\n" \o
  "%%%tsx\n" \o
  "import { " \o defaultName \o " } from './components/" \o feature \o "';\n" \o
  "\n" \o
  "function App() {\n" \o
  "  return <" \o defaultName \o " />;\n" \o
  "}\n" \o
  "%%%"

\* generate-component.ts:561-614
generateComponent(args) ==
  LET feature == field(args, "feature")
      componentName == field(args, "componentName")
      styling == orDefault(field(args, "styling"), Str("tailwind"))
      key == toString(feature)
      kind == lookupKind(componentDefaults, feature)
      defaultName == IF truthy(componentName) THEN toString(componentName)
                     ELSE capitalize(key) \o "Component"
  IN  IF ~truthy(feature) \/ kind = "undefined"
        THEN Return("Invalid feature. Available features: " \o join(keysOf(componentDefaults), ", "))
      ELSE IF kind = "inherited"
        THEN (IF key \in InheritedNotCallable
                THEN Throw("TypeError")
                ELSE Return(componentReport(inheritedCallText(key), defaultName, key)))
      ELSE Return(componentReport(componentTemplates(key, componentName, styling), defaultName, key))

(* --------------------- part_001: scaffoldFeature ----------------------- *)

\* part_001:9-19
featureDescriptions ==
  <<
    [ key |-> "push",
      value |-> "Push Notifications - Request permission, get device token, receive notifications" ],
    [ key |-> "biometrics",
      value |-> "Biometric Authentication - Face ID / Touch ID authentication" ],
    [ key |-> "camera",
      value |-> "Camera - Request permission and capture photos" ],
    [ key |-> "location",
      value |-> "Location - Request permission and get GPS coordinates" ],
    [ key |-> "haptics",
      value |-> "Haptic Feedback - Trigger tactile feedback (impact, notifications)" ],
    [ key |-> "storage",
      value |-> "Persistent Storage - Key-value storage with native backing" ],
    [ key |-> "share",
      value |-> "Native Share Sheet - Share content using the native share dialog" ],
    [ key |-> "network",
      value |-> "Network Status - Monitor connectivity and network type" ],
    [ key |-> "device",
      value |-> "Device Info - Get platform, OS version, device details" ]
  >>

\* part_001:147-267  the types table of generateTypesFile
types ==
  <<
    [ key |-> "push",
      value |->
        "export type PermissionStatus = 'granted' | 'denied' | 'undetermined';\n" \o
        "\n" \o
        "export interface PushMessage {\n" \o
        "  title: string;\n" \o
        "  body: string;\n" \o
        "  data?: Record<string, unknown>;\n" \o
        "}\n" \o
        "\n" \o
        "export interface UsePushReturn {\n" \o
        "  permission: PermissionStatus | null;\n" \o
        "  token: string | null;\n" \o
        "  isLoading: boolean;\n" \o
        "  error: Error | null;\n" \o
        "  requestPermission: () => Promise<PermissionStatus>;\n" \o
        "  getToken: () => Promise<string | null>;\n" \o
        "}"
    ],
    [ key |-> "biometrics",
      value |->
        "export interface UseBiometricsReturn {\n" \o
        "  isAvailable: boolean | null;\n" \o
        "  isAuthenticated: boolean;\n" \o
        "  isLoading: boolean;\n" \o
        "  error: Error | null;\n" \o
        "  checkAvailability: () => Promise<boolean>;\n" \o
        "  authenticate: (reason: string) => Promise<boolean>;\n" \o
        "}"
    ],
    [ key |-> "camera",
      value |->
        "export type PermissionStatus = 'granted' | 'denied' | 'undetermined';\n" \o
        "\n" \o
        "export interface Photo {\n" \o
        "  uri: string;\n" \o
        "  base64?: string;\n" \o
        "  width: number;\n" \o
        "  height: number;\n" \o
        "}\n" \o
        "\n" \o
        "export interface UseCameraReturn {\n" \o
        "  permission: PermissionStatus | null;\n" \o
        "  photo: Photo | null;\n" \o
        "  isLoading: boolean;\n" \o
        "  error: Error | null;\n" \o
        "  requestPermission: () => Promise<PermissionStatus>;\n" \o
        "  takePicture: () => Promise<Photo | null>;\n" \o
        "  clearPhoto: () => void;\n" \o
        "}"
    ],
    [ key |-> "location",
      value |->
        "export type PermissionStatus = 'granted' | 'denied' | 'undetermined';\n" \o
        "\n" \o
        "export interface Position {\n" \o
        "  latitude: number;\n" \o
        "  longitude: number;\n" \o
        "  altitude: number | null;\n" \o
        "  accuracy: number;\n" \o
        "  timestamp: number;\n" \o
        "}\n" \o
        "\n" \o
        "export interface UseLocationReturn {\n" \o
        "  permission: PermissionStatus | null;\n" \o
        "  position: Position | null;\n" \o
        "  isLoading: boolean;\n" \o
        "  error: Error | null;\n" \o
        "  requestPermission: () => Promise<PermissionStatus>;\n" \o
        "  getCurrentPosition: () => Promise<Position | null>;\n" \o
        "}"
    ],
    [ key |-> "haptics",
      value |->
        "export type ImpactStyle = 'light' | 'medium' | 'heavy';\n" \o
        "export type NotificationType = 'success' | 'warning' | 'error';\n" \o
        "\n" \o
        "export interface UseHapticsReturn {\n" \o
        "  impact: (style?: ImpactStyle) => void;\n" \o
        "  notification: (type: NotificationType) => void;\n" \o
        "  success: () => void;\n" \o
        "  warning: () => void;\n" \o
        "  error: () => void;\n" \o
        "}"
    ],
    [ key |-> "storage",
      value |->
        "export interface UseStorageReturn<T> {\n" \o
        "  value: T | null;\n" \o
        "  isLoading: boolean;\n" \o
        "  error: Error | null;\n" \o
        "  get: () => Promise<T | null>;\n" \o
        "  set: (value: T) => Promise<void>;\n" \o
        "  remove: () => Promise<void>;\n" \o
        "}"
    ],
    [ key |-> "share",
      value |->
        "export interface ShareOptions {\n" \o
        "  title?: string;\n" \o
        "  message?: string;\n" \o
        "  url?: string;\n" \o
        "}\n" \o
        "\n" \o
        "export interface ShareResult {\n" \o
        "  success: boolean;\n" \o
        "  action?: string;\n" \o
        "}\n" \o
        "\n" \o
        "export interface UseShareReturn {\n" \o
        "  isLoading: boolean;\n" \o
        "  error: Error | null;\n" \o
        "  share: (options: ShareOptions) => Promise<ShareResult>;\n" \o
        "}"
    ],
    [ key |-> "network",
      value |->
        "export interface NetworkStatus {\n" \o
        "  isConnected: boolean;\n" \o
        "  type: 'wifi' | 'cellular' | 'unknown' | 'none';\n" \o
        "}\n" \o
        "\n" \o
        "export interface UseNetworkReturn {\n" \o
        "  status: NetworkStatus | null;\n" \o
        "  isOnline: boolean;\n" \o
        "  refresh: () => Promise<NetworkStatus | null>;\n" \o
        "}"
    ],
    [ key |-> "device",
      value |->
        "export interface DeviceInfo {\n" \o
        "  platform: 'ios' | 'android' | 'web';\n" \o
        "  osVersion: string;\n" \o
        "  appVersion: string;\n" \o
        "  deviceId: string;\n" \o
        "  deviceName: string;\n" \o
        "  isTablet: boolean;\n" \o
        "}\n" \o
        "\n" \o
        "export interface UseDeviceReturn {\n" \o
        "  info: DeviceInfo | null;\n" \o
        "  isNative: boolean;\n" \o
        "  isLoading: boolean;\n" \o
        "  error: Error | null;\n" \o
        "}"
    ]
  >>

\* part_001:347-357  the fallbacks table of getNativeFallbackInfo
fallbacks ==
  <<
    [ key |-> "push",
      value |-> "- Web: Returns 'denied' permission, null token" ],
    [ key |-> "biometrics",
      value |-> "- Web: Returns false for availability" ],
    [ key |-> "camera",
      value |-> "- Web: Returns 'denied' permission" ],
    [ key |-> "location",
      value |-> "- Web: Returns 'denied' permission (consider using browser Geolocation API)" ],
    [ key |-> "haptics",
      value |-> "- Web: Silent no-op (no vibration API used)" ],
    [ key |-> "storage",
      value |-> "- Web: Falls back to localStorage" ],
    [ key |-> "share",
      value |-> "- Web: Uses navigator.share() if available, otherwise fails gracefully" ],
    [ key |-> "network",
      value |-> "- Web: Uses navigator.onLine and online/offline events" ],
    [ key |-> "device",
      value |-> "- Web: Parses user agent for basic device info" ]
  >>

\* part_001:272-290
generateHookFile(feature, hookName, requiresPermission) ==
  "import { useState, useCallback" \o (IF feature = "network" \/ feature = "device" THEN ", useEffect" ELSE "") \o " } from 'react';\n" \o
  "import { getAppo } from '@appolabs/appo';\n" \o
  "import type { Use" \o toUpperCase(charAt(feature, 0)) \o slice(feature, 1) \o "Return } from '../types/" \o feature \o "';\n" \o
  "\n" \o
  "export function " \o hookName \o "(): Use" \o toUpperCase(charAt(feature, 0)) \o slice(feature, 1) \o "Return {\n" \o
  "  const appo = getAppo();\n" \o
  "\n" \o
  "  // TODO: Implement hook logic for " \o feature \o "\n" \o
  "  // See @appolabs/appo-mcp generate_hook tool for full implementation\n" \o
  "\n" \o
  "  throw new Error('" \o hookName \o " not implemented - use generate_hook tool');\n" \o
  "}\n"

\* part_001:292-312
generateComponentFile(feature, componentName, hookName) ==
  "import { " \o hookName \o " } from '../hooks/" \o hookName \o "';\n" \o
  "\n" \o
  "export function " \o componentName \o "() {\n" \o
  "  const hook = " \o hookName \o "();\n" \o
  "\n" \o
  "  // TODO: Implement component UI for " \o feature \o "\n" \o
  "  // See @appolabs/appo-mcp generate_component tool for full implementation\n" \o
  "\n" \o
  "  return (\n" \o
  "    <div>\n" \o
  "      <p>" \o feature \o " component placeholder</p>\n" \o
  "    </div>\n" \o
  "  );\n" \o
  "}\n"

\* part_001:314-344
generateTestFile(feature, hookName) ==
  "import { describe, it, expect, vi, beforeEach } from 'vitest';\n" \o
  "import { renderHook, act } from '@testing-library/react';\n" \o
  "import { " \o hookName \o " } from '../hooks/" \o hookName \o "';\n" \o
  "\n" \o
  "// Mock @appolabs/appo\n" \o
  "vi.mock('@appolabs/appo', () => ({\n" \o
  "  getAppo: () => ({\n" \o
  "    isNative: false,\n" \o
  "    " \o feature \o ": {\n" \o
  "      // Add mock methods for " \o feature \o " API\n" \o
  "    },\n" \o
  "  }),\n" \o
  "}));\n" \o
  "\n" \o
  "describe('" \o hookName \o "', () => {\n" \o
  "  beforeEach(() => {\n" \o
  "    vi.clearAllMocks();\n" \o
  "  });\n" \o
  "\n" \o
  "  it('should initialize with default state', () => {\n" \o
  "    const { result } = renderHook(() => " \o hookName \o "());\n" \o
  "\n" \o
  "    // Add assertions based on feature\n" \o
  "    expect(result.current).toBeDefined();\n" \o
  "  });\n" \o
  "\n" \o
  "  // Add more tests for " \o feature \o " functionality\n" \o
  "});\n"

\* part_001:21
permissionFeatures == << "push", "camera", "location" >>

\* part_001:146-270
generateTypesFile(feature) == lookupText(types, feature)

\* part_001:346-360
getNativeFallbackInfo(feature) == lookupText(fallbacks, feature)

\* part_001:102-144
generateScaffoldFiles(feature, hookName, componentName, directory, includeTests, requiresPermission) ==
  << [ path |-> directory \o "/types/" \o feature \o ".ts",
       language |-> "typescript",
       content |-> generateTypesFile(feature) ],
     [ path |-> directory \o "/hooks/" \o hookName \o ".ts",
       language |-> "typescript",
       content |-> generateHookFile(feature, hookName, requiresPermission) ],
     [ path |-> directory \o "/components/" \o componentName \o ".tsx",
       language |-> "tsx",
       content |-> generateComponentFile(feature, componentName, hookName) ] >>
  \o (IF includeTests
        THEN << [ path |-> directory \o "/__tests__/" \o hookName \o ".test.ts",
                  language |-> "typescript",
                  content |-> generateTestFile(feature, hookName) ] >>
        ELSE << >>)

\* part_001:62  one section per file
fileSections(fs) ==
  [i \in 1..Len(fs) |->
     "### " \o fs[i].path \o "\n%%%" \o fs[i].language \o "\n" \o fs[i].content \o "\n%%%"]

\* part_001:84-91  the section shown for a permission-gated feature
PermissionHandling ==
  "## Permission Handling\n" \o
  "\n" \o
  "This feature requires user permission. The scaffold includes:\n" \o
  "- Permission request on first interaction\n" \o
  "- Graceful handling of denied permissions\n" \o
  "- Loading states during permission checks\n" \o
  "\n" \o
  "**Important:** Always explain to users WHY you need this permission before requesting it."

\* part_001:56-96  the text of the scaffold report
scaffoldText(feature, capitalizedFeature, componentName, directory, fs, requiresPermission) ==
  "# " \o capitalizedFeature \o " Feature Scaffold\n" \o
  "\n" \o
  lookupText(featureDescriptions, feature) \o "\n" \o
  "\n" \o
  "## Files to Create\n" \o
  "\n" \o
  join(fileSections(fs), "\n\n") \o "\n" \o
  "\n" \o
  "## Integration Steps\n" \o
  "\n" \o
  "1. **Install the SDK** (if not already installed):\n" \o
  "   %%%bash\n" \o
  "   npm install @appolabs/appo\n" \o
  "   # or\n" \o
  "   pnpm add @appolabs/appo\n" \o
  "   %%%\n" \o
  "\n" \o
  "2. **Create the files** listed above in your project\n" \o
  "\n" \o
  "3. **Import and use** in your app:\n" \o
  "   %%%tsx\n" \o
  "   import { " \o componentName \o " } from './" \o toString(directory) \o "/components/" \o feature \o "';\n" \o
  "\n" \o
  "   function App() {\n" \o
  "     return <" \o componentName \o " />;\n" \o
  "   }\n" \o
  "   %%%\n" \o
  "\n" \o
  (IF requiresPermission THEN PermissionHandling ELSE "") \o "\n" \o
  "\n" \o
  "## Native vs Web Behavior\n" \o
  "\n" \o
  "The SDK provides automatic fallbacks for web browsers:\n" \o
  getNativeFallbackInfo(feature)

\* part_001:31-43
invalidScaffoldFeature ==
  "Invalid feature. Available features:\n"
    \o join([i \in 1..Len(featureDescriptions) |->
               "- " \o featureDescriptions[i].key \o ": " \o featureDescriptions[i].value], "\n")

\* part_001:23-100  one run of scaffoldFeature: what it returns (out) and the
\* file list it built (files, empty for an invalid feature).
scaffoldFeatureRun(args) ==
  LET feature == field(args, "feature")
      directory == orDefault(field(args, "directory"), Str("src"))
      includeTests == orDefault(field(args, "includeTests"), Bool(TRUE))
      key == toString(feature)
      capitalizedFeature == capitalize(key)
      hookName == "use" \o capitalizedFeature
      componentName == capitalizedFeature \o "Component"
      requiresPermission == some(permissionFeatures, LAMBDA f : f = key) /\ isString(feature)
      fs == generateScaffoldFiles(key, hookName, componentName, toString(directory),
                                  truthy(includeTests), requiresPermission)
  IN  IF ~truthy(feature) \/ lookupKind(featureDescriptions, feature) = "undefined"
        THEN [ out |-> Return(invalidScaffoldFeature), files |-> << >> ]
        ELSE [ out |-> Return(scaffoldText(key, capitalizedFeature, componentName,
                                           directory, fs, requiresPermission)),
               files |-> fs ]

scaffoldFeature(args) == scaffoldFeatureRun(args).out

(* ---------------------- part_001: handleToolCall ----------------------- *)

\* part_001:384-540  the names of the advertised tools, in list order
toolNames ==
  << "generate_hook", "generate_component", "scaffold_feature",
     "validate_setup", "check_permissions", "diagnose_issue" >>

\* part_001:504  the enum of the feature property of check_permissions
checkPermissionsFeatureEnum == << "push", "camera", "location" >>

\* A dispatcher that has no case for diagnose_issue.
handleToolCallNoDiagnose(name, args) ==
  CASE name = "generate_hook"      -> generateHook(args)
    [] name = "generate_component" -> generateComponent(args)
    [] name = "scaffold_feature"   -> scaffoldFeature(args)
    [] name = "validate_setup"     -> validateSetup(args)
    [] name = "check_permissions"  -> checkPermissions(args)
    [] OTHER                       -> Return("Unknown tool: " \o name)

\* part_001:542-564
handleToolCall(name, args) ==
  CASE name = "generate_hook"      -> generateHook(args)
    [] name = "generate_component" -> generateComponent(args)
    [] name = "scaffold_feature"   -> scaffoldFeature(args)
    [] name = "validate_setup"     -> validateSetup(args)
    [] name = "check_permissions"  -> checkPermissions(args)
    [] name = "diagnose_issue"     -> diagnoseIssue(args)
    [] OTHER                       -> Return("Unknown tool: " \o name)

(* ------------------- src/resources: documentation texts ---------------- *)

\* api-reference.ts:3-526
apiDocs ==
  <<
    [ key |-> "push",
      value |->
        "# Push Notifications API\n" \o
        "\n" \o
        "## appo.push\n" \o
        "\n" \o
        "Access push notification functionality.\n" \o
        "\n" \o
        "### Methods\n" \o
        "\n" \o
        "#### %requestPermission(): Promise<PermissionStatus>%\n" \o
        "\n" \o
        "Request permission to send push notifications.\n" \o
        "\n" \o
        "**Returns:** %'granted' | 'denied' | 'undetermined'%\n" \o
        "\n" \o
        "**Example:**\n" \o
        "%%%typescript\n" \o
        "const status = await appo.push.requestPermission();\n" \o
        "if (status === 'granted') {\n" \o
        "  // User accepted\n" \o
        "}\n" \o
        "%%%\n" \o
        "\n" \o
        "**Web fallback:** Returns %'denied'%\n" \o
        "\n" \o
        "---\n" \o
        "\n" \o
        "#### %getToken(): Promise<string | null>%\n" \o
        "\n" \o
        "Get the Expo push notification token for this device.\n" \o
        "\n" \o
        "**Returns:** Expo push token string or %null%\n" \o
        "\n" \o
        "**Example:**\n" \o
        "%%%typescript\n" \o
        "const token = await appo.push.getToken();\n" \o
        "if (token) {\n" \o
        "  // Send token to your backend\n" \o
        "  await api.registerDevice(token);\n" \o
        "}\n" \o
        "%%%\n" \o
        "\n" \o
        "**Web fallback:** Returns %null%\n" \o
        "\n" \o
        "---\n" \o
        "\n" \o
        "#### %onMessage(callback: (message: PushMessage) => void): () => void%\n" \o
        "\n" \o
        "Subscribe to incoming push notifications.\n" \o
        "\n" \o
        "**Parameters:**\n" \o
        "- %callback%: Function called when a notification is received\n" \o
        "\n" \o
        "**Returns:** Unsubscribe function\n" \o
        "\n" \o
        "**Example:**\n" \o
        "%%%typescript\n" \o
        "const unsubscribe = appo.push.onMessage((message) => {\n" \o
        "  console.log('Notification:', message.title, message.body);\n" \o
        "  console.log('Data:', message.data);\n" \o
        "});\n" \o
        "\n" \o
        "// Later: cleanup\n" \o
        "unsubscribe();\n" \o
        "%%%\n" \o
        "\n" \o
        "### Types\n" \o
        "\n" \o
        "%%%typescript\n" \o
        "type PermissionStatus = 'granted' | 'denied' | 'undetermined';\n" \o
        "\n" \o
        "interface PushMessage {\n" \o
        "  title: string;\n" \o
        "  body: string;\n" \o
        "  data?: Record<string, unknown>;\n" \o
        "}\n" \o
        "%%%\n" \o
        ""
    ],
    [ key |-> "biometrics",
      value |->
        "# Biometrics API\n" \o
        "\n" \o
        "## appo.biometrics\n" \o
        "\n" \o
        "Access Face ID / Touch ID authentication.\n" \o
        "\n" \o
        "### Methods\n" \o
        "\n" \o
        "#### %isAvailable(): Promise<boolean>%\n" \o
        "\n" \o
        "Check if biometric authentication is available on the device.\n" \o
        "\n" \o
        "**Returns:** %true% if biometrics available, %false% otherwise\n" \o
        "\n" \o
        "**Example:**\n" \o
        "%%%typescript\n" \o
        "const available = await appo.biometrics.isAvailable();\n" \o
        "if (available) {\n" \o
        "  // Show biometric login option\n" \o
        "}\n" \o
        "%%%\n" \o
        "\n" \o
        "**Web fallback:** Returns %false%\n" \o
        "\n" \o
        "---\n" \o
        "\n" \o
        "#### %authenticate(reason: string): Promise<boolean>%\n" \o
        "\n" \o
        "Prompt user for biometric authentication.\n" \o
        "\n" \o
        "**Parameters:**\n" \o
        "- %reason%: Message shown to user explaining why authentication is needed\n" \o
        "\n" \o
        "**Returns:** %true% if authenticated successfully, %false% otherwise\n" \o
        "\n" \o
        "**Example:**\n" \o
        "%%%typescript\n" \o
        "const success = await appo.biometrics.authenticate(\n" \o
        "  'Authenticate to access your account'\n" \o
        ");\n" \o
        "\n" \o
        "if (success) {\n" \o
        "  // User authenticated\n" \o
        "  unlockApp();\n" \o
        "}\n" \o
        "%%%\n" \o
        "\n" \o
        "**Web fallback:** Returns %false%\n" \o
        ""
    ],
    [ key |-> "camera",
      value |->
        "# Camera API\n" \o
        "\n" \o
        "## appo.camera\n" \o
        "\n" \o
        "Access device camera for photo capture.\n" \o
        "\n" \o
        "### Methods\n" \o
        "\n" \o
        "#### %requestPermission(): Promise<PermissionStatus>%\n" \o
        "\n" \o
        "Request permission to access the camera.\n" \o
        "\n" \o
        "**Returns:** %'granted' | 'denied' | 'undetermined'%\n" \o
        "\n" \o
        "**Example:**\n" \o
        "%%%typescript\n" \o
        "const status = await appo.camera.requestPermission();\n" \o
        "%%%\n" \o
        "\n" \o
        "**Web fallback:** Returns %'denied'%\n" \o
        "\n" \o
        "---\n" \o
        "\n" \o
        "#### %takePicture(): Promise<Photo | null>%\n" \o
        "\n" \o
        "Open camera and capture a photo.\n" \o
        "\n" \o
        "**Returns:** Photo object with URI, dimensions, and optional base64 data\n" \o
        "\n" \o
        "**Example:**\n" \o
        "%%%typescript\n" \o
        "const photo = await appo.camera.takePicture();\n" \o
        "if (photo) {\n" \o
        "  console.log('Photo URI:', photo.uri);\n" \o
        "  console.log('Dimensions:', photo.width, 'x', photo.height);\n" \o
        "}\n" \o
        "%%%\n" \o
        "\n" \o
        "**Web fallback:** Returns %null%\n" \o
        "\n" \o
        "### Types\n" \o
        "\n" \o
        "%%%typescript\n" \o
        "interface Photo {\n" \o
        "  uri: string;\n" \o
        "  base64?: string;\n" \o
        "  width: number;\n" \o
        "  height: number;\n" \o
        "}\n" \o
        "%%%\n" \o
        ""
    ],
    [ key |-> "location",
      value |->
        "# Location API\n" \o
        "\n" \o
        "## appo.location\n" \o
        "\n" \o
        "Access device GPS location.\n" \o
        "\n" \o
        "### Methods\n" \o
        "\n" \o
        "#### %requestPermission(): Promise<PermissionStatus>%\n" \o
        "\n" \o
        "Request permission to access device location.\n" \o
        "\n" \o
        "**Returns:** %'granted' | 'denied' | 'undetermined'%\n" \o
        "\n" \o
        "**Example:**\n" \o
        "%%%typescript\n" \o
        "const status = await appo.location.requestPermission();\n" \o
        "%%%\n" \o
        "\n" \o
        "**Web fallback:** Returns %'denied'%\n" \o
        "\n" \o
        "---\n" \o
        "\n" \o
        "#### %getCurrentPosition(): Promise<Position | null>%\n" \o
        "\n" \o
        "Get the current GPS position.\n" \o
        "\n" \o
        "**Returns:** Position object with coordinates and accuracy\n" \o
        "\n" \o
        "**Example:**\n" \o
        "%%%typescript\n" \o
        "const pos = await appo.location.getCurrentPosition();\n" \o
        "if (pos) {\n" \o
        "  console.log('Lat:', pos.latitude);\n" \o
        "  console.log('Lng:', pos.longitude);\n" \o
        "  console.log('Accuracy:', pos.accuracy, 'meters');\n" \o
        "}\n" \o
        "%%%\n" \o
        "\n" \o
        "**Web fallback:** Returns %null%\n" \o
        "\n" \o
        "### Types\n" \o
        "\n" \o
        "%%%typescript\n" \o
        "interface Position {\n" \o
        "  latitude: number;\n" \o
        "  longitude: number;\n" \o
        "  altitude: number | null;\n" \o
        "  accuracy: number;\n" \o
        "  timestamp: number;\n" \o
        "}\n" \o
        "%%%\n" \o
        ""
    ],
    [ key |-> "haptics",
      value |->
        "# Haptics API\n" \o
        "\n" \o
        "## appo.haptics\n" \o
        "\n" \o
        "Trigger tactile/haptic feedback.\n" \o
        "\n" \o
        "### Methods\n" \o
        "\n" \o
        "#### %impact(style: ImpactStyle): void%\n" \o
        "\n" \o
        "Trigger an impact haptic feedback.\n" \o
        "\n" \o
        "**Parameters:**\n" \o
        "- %style%: %'light' | 'medium' | 'heavy'%\n" \o
        "\n" \o
        "**Example:**\n" \o
        "%%%typescript\n" \o
        "// Light tap for selections\n" \o
        "appo.haptics.impact('light');\n" \o
        "\n" \o
        "// Medium tap for confirmations\n" \o
        "appo.haptics.impact('medium');\n" \o
        "\n" \o
        "// Heavy tap for emphasis\n" \o
        "appo.haptics.impact('heavy');\n" \o
        "%%%\n" \o
        "\n" \o
        "**Web fallback:** No-op (silent)\n" \o
        "\n" \o
        "---\n" \o
        "\n" \o
        "#### %notification(type: NotificationType): void%\n" \o
        "\n" \o
        "Trigger a notification haptic feedback.\n" \o
        "\n" \o
        "**Parameters:**\n" \o
        "- %type%: %'success' | 'warning' | 'error'%\n" \o
        "\n" \o
        "**Example:**\n" \o
        "%%%typescript\n" \o
        "// Success feedback\n" \o
        "appo.haptics.notification('success');\n" \o
        "\n" \o
        "// Warning feedback\n" \o
        "appo.haptics.notification('warning');\n" \o
        "\n" \o
        "// Error feedback\n" \o
        "appo.haptics.notification('error');\n" \o
        "%%%\n" \o
        "\n" \o
        "**Web fallback:** No-op (silent)\n" \o
        "\n" \o
        "### Types\n" \o
        "\n" \o
        "%%%typescript\n" \o
        "type ImpactStyle = 'light' | 'medium' | 'heavy';\n" \o
        "type NotificationType = 'success' | 'warning' | 'error';\n" \o
        "%%%\n" \o
        ""
    ],
    [ key |-> "storage",
      value |->
        "# Storage API\n" \o
        "\n" \o
        "## appo.storage\n" \o
        "\n" \o
        "Persistent key-value storage with native backing.\n" \o
        "\n" \o
        "### Methods\n" \o
        "\n" \o
        "#### %get(key: string): Promise<string | null>%\n" \o
        "\n" \o
        "Retrieve a value from storage.\n" \o
        "\n" \o
        "**Parameters:**\n" \o
        "- %key%: Storage key\n" \o
        "\n" \o
        "**Returns:** Stored value or %null% if not found\n" \o
        "\n" \o
        "**Example:**\n" \o
        "%%%typescript\n" \o
        "const value = await appo.storage.get('user-preferences');\n" \o
        "if (value) {\n" \o
        "  const prefs = JSON.parse(value);\n" \o
        "}\n" \o
        "%%%\n" \o
        "\n" \o
        "**Web fallback:** Uses %localStorage%\n" \o
        "\n" \o
        "---\n" \o
        "\n" \o
        "#### %set(key: string, value: string): Promise<void>%\n" \o
        "\n" \o
        "Store a value.\n" \o
        "\n" \o
        "**Parameters:**\n" \o
        "- %key%: Storage key\n" \o
        "- %value%: Value to store (must be string)\n" \o
        "\n" \o
        "**Example:**\n" \o
        "%%%typescript\n" \o
        "await appo.storage.set('user-preferences', JSON.stringify(prefs));\n" \o
        "%%%\n" \o
        "\n" \o
        "**Web fallback:** Uses %localStorage%\n" \o
        "\n" \o
        "---\n" \o
        "\n" \o
        "#### %delete(key: string): Promise<void>%\n" \o
        "\n" \o
        "Remove a value from storage.\n" \o
        "\n" \o
        "**Parameters:**\n" \o
        "- %key%: Storage key to remove\n" \o
        "\n" \o
        "**Example:**\n" \o
        "%%%typescript\n" \o
        "await appo.storage.delete('user-preferences');\n" \o
        "%%%\n" \o
        "\n" \o
        "**Web fallback:** Uses %localStorage%\n" \o
        ""
    ],
    [ key |-> "share",
      value |->
        "# Share API\n" \o
        "\n" \o
        "## appo.share\n" \o
        "\n" \o
        "Open native share sheet.\n" \o
        "\n" \o
        "### Methods\n" \o
        "\n" \o
        "#### %open(options: ShareOptions): Promise<ShareResult>%\n" \o
        "\n" \o
        "Open the native share dialog.\n" \o
        "\n" \o
        "**Parameters:**\n" \o
        "- %options.title%: Share title (optional)\n" \o
        "- %options.message%: Share message (optional)\n" \o
        "- %options.url%: URL to share (optional)\n" \o
        "\n" \o
        "**Returns:** Result indicating if share was successful\n" \o
        "\n" \o
        "**Example:**\n" \o
        "%%%typescript\n" \o
        "const result = await appo.share.open({\n" \o
        "  title: 'Check this out!',\n" \o
        "  message: 'I found this great app',\n" \o
        "  url: 'https://example.com/app'\n" \o
        "});\n" \o
        "\n" \o
        "if (result.success) {\n" \o
        "  console.log('Shared via:', result.action);\n" \o
        "}\n" \o
        "%%%\n" \o
        "\n" \o
        "**Web fallback:** Uses %navigator.share()% if available\n" \o
        "\n" \o
        "### Types\n" \o
        "\n" \o
        "%%%typescript\n" \o
        "interface ShareOptions {\n" \o
        "  title?: string;\n" \o
        "  message?: string;\n" \o
        "  url?: string;\n" \o
        "}\n" \o
        "\n" \o
        "interface ShareResult {\n" \o
        "  success: boolean;\n" \o
        "  action?: string;\n" \o
        "}\n" \o
        "%%%\n" \o
        ""
    ],
    [ key |-> "network",
      value |->
        "# Network API\n" \o
        "\n" \o
        "## appo.network\n" \o
        "\n" \o
        "Monitor network connectivity status.\n" \o
        "\n" \o
        "### Methods\n" \o
        "\n" \o
        "#### %getStatus(): Promise<NetworkStatus | null>%\n" \o
        "\n" \o
        "Get current network status.\n" \o
        "\n" \o
        "**Returns:** Network status object\n" \o
        "\n" \o
        "**Example:**\n" \o
        "%%%typescript\n" \o
        "const status = await appo.network.getStatus();\n" \o
        "if (status) {\n" \o
        "  console.log('Connected:', status.isConnected);\n" \o
        "  console.log('Type:', status.type);\n" \o
        "}\n" \o
        "%%%\n" \o
        "\n" \o
        "**Web fallback:** Uses %navigator.onLine%\n" \o
        "\n" \o
        "---\n" \o
        "\n" \o
        "#### %onChange(callback: (status: NetworkStatus) => void): () => void%\n" \o
        "\n" \o
        "Subscribe to network status changes.\n" \o
        "\n" \o
        "**Parameters:**\n" \o
        "- %callback%: Function called when network status changes\n" \o
        "\n" \o
        "**Returns:** Unsubscribe function\n" \o
        "\n" \o
        "**Example:**\n" \o
        "%%%typescript\n" \o
        "const unsubscribe = appo.network.onChange((status) => {\n" \o
        "  if (!status.isConnected) {\n" \o
        "    showOfflineBanner();\n" \o
        "  }\n" \o
        "});\n" \o
        "%%%\n" \o
        "\n" \o
        "**Web fallback:** Uses online/offline events\n" \o
        "\n" \o
        "### Types\n" \o
        "\n" \o
        "%%%typescript\n" \o
        "interface NetworkStatus {\n" \o
        "  isConnected: boolean;\n" \o
        "  type: 'wifi' | 'cellular' | 'unknown' | 'none';\n" \o
        "}\n" \o
        "%%%\n" \o
        ""
    ],
    [ key |-> "device",
      value |->
        "# Device API\n" \o
        "\n" \o
        "## appo.device\n" \o
        "\n" \o
        "Get device information.\n" \o
        "\n" \o
        "### Methods\n" \o
        "\n" \o
        "#### %getInfo(): Promise<DeviceInfo>%\n" \o
        "\n" \o
        "Get detailed device information.\n" \o
        "\n" \o
        "**Returns:** Device info object\n" \o
        "\n" \o
        "**Example:**\n" \o
        "%%%typescript\n" \o
        "const info = await appo.device.getInfo();\n" \o
        "console.log('Platform:', info.platform);\n" \o
        "console.log('OS:', info.osVersion);\n" \o
        "console.log('App Version:', info.appVersion);\n" \o
        "console.log('Device:', info.deviceName);\n" \o
        "console.log('Is Tablet:', info.isTablet);\n" \o
        "%%%\n" \o
        "\n" \o
        "**Web fallback:** Parses user agent for basic info\n" \o
        "\n" \o
        "### Types\n" \o
        "\n" \o
        "%%%typescript\n" \o
        "interface DeviceInfo {\n" \o
        "  platform: 'ios' | 'android' | 'web';\n" \o
        "  osVersion: string;\n" \o
        "  appVersion: string;\n" \o
        "  deviceId: string;\n" \o
        "  deviceName: string;\n" \o
        "  isTablet: boolean;\n" \o
        "}\n" \o
        "%%%\n" \o
        "\n" \o
        "## appo.isNative\n" \o
        "\n" \o
        "Boolean property indicating if running in native app context.\n" \o
        "\n" \o
        "**Example:**\n" \o
        "%%%typescript\n" \o
        "if (appo.isNative) {\n" \o
        "  // Full native features available\n" \o
        "} else {\n" \o
        "  // Running in browser\n" \o
        "}\n" \o
        "%%%\n" \o
        "\n" \o
        "## appo.version\n" \o
        "\n" \o
        "SDK version string.\n" \o
        "\n" \o
        "%%%typescript\n" \o
        "console.log('SDK:', appo.version);\n" \o
        "%%%\n" \o
        ""
    ]
  >>

\* examples.ts:3-613
examples ==
  <<
    [ key |-> "push",
      value |->
        "# Push Notifications Examples\n" \o
        "\n" \o
        "## Basic Push Setup\n" \o
        "\n" \o
        "%%%tsx\n" \o
        "import { useState, useEffect } from 'react';\n" \o
        "import { getAppo } from '@appolabs/appo';\n" \o
        "\n" \o
        "function PushSetup() {\n" \o
        "  const [token, setToken] = useState<string | null>(null);\n" \o
        "  const appo = getAppo();\n" \o
        "\n" \o
        "  useEffect(() => {\n" \o
        "    async function setup() {\n" \o
        "      const status = await appo.push.requestPermission();\n" \o
        "      if (status === 'granted') {\n" \o
        "        const pushToken = await appo.push.getToken();\n" \o
        "        setToken(pushToken);\n" \o
        "        // Send to your backend\n" \o
        "      }\n" \o
        "    }\n" \o
        "    setup();\n" \o
        "  }, []);\n" \o
        "\n" \o
        "  return <p>{token ? 'Push enabled' : 'Setting up...'}</p>;\n" \o
        "}\n" \o
        "%%%\n" \o
        "\n" \o
        "## Handling Incoming Notifications\n" \o
        "\n" \o
        "%%%tsx\n" \o
        "import { useEffect } from 'react';\n" \o
        "import { getAppo, type PushMessage } from '@appolabs/appo';\n" \o
        "import { useNavigate } from 'react-router-dom';\n" \o
        "\n" \o
        "function NotificationHandler() {\n" \o
        "  const navigate = useNavigate();\n" \o
        "  const appo = getAppo();\n" \o
        "\n" \o
        "  useEffect(() => {\n" \o
        "    return appo.push.onMessage((message: PushMessage) => {\n" \o
        "      // Handle different notification types\n" \o
        "      if (message.data?.type === 'order_update') {\n" \o
        "        navigate(%/orders/${message.data.orderId}%);\n" \o
        "      } else if (message.data?.type === 'chat') {\n" \o
        "        navigate(%/chat/${message.data.conversationId}%);\n" \o
        "      }\n" \o
        "    });\n" \o
        "  }, [navigate]);\n" \o
        "\n" \o
        "  return null;\n" \o
        "}\n" \o
        "%%%\n" \o
        "\n" \o
        "## Push with React Query\n" \o
        "\n" \o
        "%%%tsx\n" \o
        "import { useMutation } from '@tanstack/react-query';\n" \o
        "import { getAppo } from '@appolabs/appo';\n" \o
        "\n" \o
        "function usePushRegistration() {\n" \o
        "  const appo = getAppo();\n" \o
        "\n" \o
        "  return useMutation({\n" \o
        "    mutationFn: async () => {\n" \o
        "      const status = await appo.push.requestPermission();\n" \o
        "      if (status !== 'granted') {\n" \o
        "        throw new Error('Permission denied');\n" \o
        "      }\n" \o
        "\n" \o
        "      const token = await appo.push.getToken();\n" \o
        "      if (!token) {\n" \o
        "        throw new Error('Could not get token');\n" \o
        "      }\n" \o
        "\n" \o
        "      // Register with backend\n" \o
        "      await fetch('/api/devices', {\n" \o
        "        method: 'POST',\n" \o
        "        body: JSON.stringify({ token }),\n" \o
        "      });\n" \o
        "\n" \o
        "      return token;\n" \o
        "    },\n" \o
        "  });\n" \o
        "}\n" \o
        "%%%\n" \o
        ""
    ],
    [ key |-> "biometrics",
      value |->
        "# Biometrics Examples\n" \o
        "\n" \o
        "## Biometric Login\n" \o
        "\n" \o
        "%%%tsx\n" \o
        "import { useState, useEffect } from 'react';\n" \o
        "import { getAppo } from '@appolabs/appo';\n" \o
        "\n" \o
        "function BiometricLogin({ onSuccess }: { onSuccess: () => void }) {\n" \o
        "  const [available, setAvailable] = useState(false);\n" \o
        "  const [loading, setLoading] = useState(true);\n" \o
        "  const appo = getAppo();\n" \o
        "\n" \o
        "  useEffect(() => {\n" \o
        "    appo.biometrics.isAvailable().then((result) => {\n" \o
        "      setAvailable(result);\n" \o
        "      setLoading(false);\n" \o
        "    });\n" \o
        "  }, []);\n" \o
        "\n" \o
        "  const handleBiometricLogin = async () => {\n" \o
        "    const success = await appo.biometrics.authenticate(\n" \o
        "      'Login with Face ID / Touch ID'\n" \o
        "    );\n" \o
        "    if (success) {\n" \o
        "      onSuccess();\n" \o
        "    }\n" \o
        "  };\n" \o
        "\n" \o
        "  if (loading) return null;\n" \o
        "  if (!available) return null;\n" \o
        "\n" \o
        "  return (\n" \o
        "    <button onClick={handleBiometricLogin}>\n" \o
        "      Login with Face ID / Touch ID\n" \o
        "    </button>\n" \o
        "  );\n" \o
        "}\n" \o
        "%%%\n" \o
        "\n" \o
        "## Protect Sensitive Actions\n" \o
        "\n" \o
        "%%%tsx\n" \o
        "import { getAppo } from '@appolabs/appo';\n" \o
        "\n" \o
        "async function confirmTransaction(amount: number) {\n" \o
        "  const appo = getAppo();\n" \o
        "\n" \o
        "  // Require biometric auth for large transactions\n" \o
        "  if (amount > 1000) {\n" \o
        "    const authenticated = await appo.biometrics.authenticate(\n" \o
        "      %Confirm transaction of $${amount}%\n" \o
        "    );\n" \o
        "\n" \o
        "    if (!authenticated) {\n" \o
        "      throw new Error('Authentication required');\n" \o
        "    }\n" \o
        "  }\n" \o
        "\n" \o
        "  // Proceed with transaction\n" \o
        "  return processTransaction(amount);\n" \o
        "}\n" \o
        "%%%\n" \o
        ""
    ],
    [ key |-> "camera",
      value |->
        "# Camera Examples\n" \o
        "\n" \o
        "## Photo Capture Component\n" \o
        "\n" \o
        "%%%tsx\n" \o
        "import { useState } from 'react';\n" \o
        "import { getAppo } from '@appolabs/appo';\n" \o
        "\n" \o
        "function PhotoCapture({ onPhoto }: { onPhoto: (uri: string) => void }) {\n" \o
        "  const [preview, setPreview] = useState<string | null>(null);\n" \o
        "  const [loading, setLoading] = useState(false);\n" \o
        "  const appo = getAppo();\n" \o
        "\n" \o
        "  const handleCapture = async () => {\n" \o
        "    setLoading(true);\n" \o
        "    try {\n" \o
        "      const permission = await appo.camera.requestPermission();\n" \o
        "      if (permission !== 'granted') return;\n" \o
        "\n" \o
        "      const photo = await appo.camera.takePicture();\n" \o
        "      if (photo) {\n" \o
        "        setPreview(photo.uri);\n" \o
        "        onPhoto(photo.uri);\n" \o
        "      }\n" \o
        "    } finally {\n" \o
        "      setLoading(false);\n" \o
        "    }\n" \o
        "  };\n" \o
        "\n" \o
        "  return (\n" \o
        "    <div>\n" \o
        "      {preview && <img src={preview} alt=\"Preview\" />}\n" \o
        "      <button onClick={handleCapture} disabled={loading}>\n" \o
        "        {loading ? 'Capturing...' : 'Take Photo'}\n" \o
        "      </button>\n" \o
        "    </div>\n" \o
        "  );\n" \o
        "}\n" \o
        "%%%\n" \o
        "\n" \o
        "## Profile Photo Upload\n" \o
        "\n" \o
        "%%%tsx\n" \o
        "import { getAppo } from '@appolabs/appo';\n" \o
        "\n" \o
        "async function updateProfilePhoto() {\n" \o
        "  const appo = getAppo();\n" \o
        "\n" \o
        "  const photo = await appo.camera.takePicture();\n" \o
        "  if (!photo || !photo.base64) return;\n" \o
        "\n" \o
        "  // Upload to server\n" \o
        "  const response = await fetch('/api/profile/photo', {\n" \o
        "    method: 'POST',\n" \o
        "    headers: { 'Content-Type': 'application/json' },\n" \o
        "    body: JSON.stringify({ image: photo.base64 }),\n" \o
        "  });\n" \o
        "\n" \o
        "  return response.json();\n" \o
        "}\n" \o
        "%%%\n" \o
        ""
    ],
    [ key |-> "location",
      value |->
        "# Location Examples\n" \o
        "\n" \o
        "## Get Current Location\n" \o
        "\n" \o
        "%%%tsx\n" \o
        "import { useState } from 'react';\n" \o
        "import { getAppo } from '@appolabs/appo';\n" \o
        "\n" \o
        "function LocationDisplay() {\n" \o
        "  const [coords, setCoords] = useState<{ lat: number; lng: number } | null>(null);\n" \o
        "  const [loading, setLoading] = useState(false);\n" \o
        "  const appo = getAppo();\n" \o
        "\n" \o
        "  const handleGetLocation = async () => {\n" \o
        "    setLoading(true);\n" \o
        "    try {\n" \o
        "      const permission = await appo.location.requestPermission();\n" \o
        "      if (permission !== 'granted') return;\n" \o
        "\n" \o
        "      const position = await appo.location.getCurrentPosition();\n" \o
        "      if (position) {\n" \o
        "        setCoords({\n" \o
        "          lat: position.latitude,\n" \o
        "          lng: position.longitude,\n" \o
        "        });\n" \o
        "      }\n" \o
        "    } finally {\n" \o
        "      setLoading(false);\n" \o
        "    }\n" \o
        "  };\n" \o
        "\n" \o
        "  return (\n" \o
        "    <div>\n" \o
        "      <button onClick={handleGetLocation} disabled={loading}>\n" \o
        "        {loading ? 'Getting location...' : 'Get Location'}\n" \o
        "      </button>\n" \o
        "      {coords && (\n" \o
        "        <p>\n" \o
        "          {coords.lat.toFixed(6)}, {coords.lng.toFixed(6)}\n" \o
        "        </p>\n" \o
        "      )}\n" \o
        "    </div>\n" \o
        "  );\n" \o
        "}\n" \o
        "%%%\n" \o
        "\n" \o
        "## Find Nearby Stores\n" \o
        "\n" \o
        "%%%tsx\n" \o
        "import { getAppo } from '@appolabs/appo';\n" \o
        "\n" \o
        "async function findNearbyStores() {\n" \o
        "  const appo = getAppo();\n" \o
        "\n" \o
        "  const position = await appo.location.getCurrentPosition();\n" \o
        "  if (!position) {\n" \o
        "    throw new Error('Could not get location');\n" \o
        "  }\n" \o
        "\n" \o
        "  // Search for nearby stores\n" \o
        "  const response = await fetch(\n" \o
        "    %/api/stores/nearby?lat=${position.latitude}&lng=${position.longitude}&radius=10%\n" \o
        "  );\n" \o
        "\n" \o
        "  return response.json();\n" \o
        "}\n" \o
        "%%%\n" \o
        ""
    ],
    [ key |-> "haptics",
      value |->
        "# Haptics Examples\n" \o
        "\n" \o
        "## Button Feedback\n" \o
        "\n" \o
        "%%%tsx\n" \o
        "import { getAppo } from '@appolabs/appo';\n" \o
        "\n" \o
        "function HapticButton({ children, onClick }: { children: React.ReactNode; onClick: () => void }) {\n" \o
        "  const appo = getAppo();\n" \o
        "\n" \o
        "  const handleClick = () => {\n" \o
        "    appo.haptics.impact('light');\n" \o
        "    onClick();\n" \o
        "  };\n" \o
        "\n" \o
        "  return <button onClick={handleClick}>{children}</button>;\n" \o
        "}\n" \o
        "%%%\n" \o
        "\n" \o
        "## Form Validation Feedback\n" \o
        "\n" \o
        "%%%tsx\n" \o
        "import { getAppo } from '@appolabs/appo';\n" \o
        "\n" \o
        "function Form() {\n" \o
        "  const appo = getAppo();\n" \o
        "\n" \o
        "  const handleSubmit = async (data: FormData) => {\n" \o
        "    try {\n" \o
        "      await submitForm(data);\n" \o
        "      appo.haptics.notification('success');\n" \o
        "    } catch (error) {\n" \o
        "      appo.haptics.notification('error');\n" \o
        "    }\n" \o
        "  };\n" \o
        "\n" \o
        "  return <form onSubmit={handleSubmit}>...</form>;\n" \o
        "}\n" \o
        "%%%\n" \o
        "\n" \o
        "## Pull-to-Refresh Feedback\n" \o
        "\n" \o
        "%%%tsx\n" \o
        "import { getAppo } from '@appolabs/appo';\n" \o
        "\n" \o
        "function RefreshableList() {\n" \o
        "  const appo = getAppo();\n" \o
        "\n" \o
        "  const handleRefresh = async () => {\n" \o
        "    appo.haptics.impact('medium');\n" \o
        "    await fetchData();\n" \o
        "  };\n" \o
        "\n" \o
        "  return <PullToRefresh onRefresh={handleRefresh}>...</PullToRefresh>;\n" \o
        "}\n" \o
        "%%%\n" \o
        ""
    ],
    [ key |-> "storage",
      value |->
        "# Storage Examples\n" \o
        "\n" \o
        "## User Preferences\n" \o
        "\n" \o
        "%%%tsx\n" \o
        "import { getAppo } from '@appolabs/appo';\n" \o
        "\n" \o
        "interface UserPrefs {\n" \o
        "  theme: 'light' | 'dark';\n" \o
        "  notifications: boolean;\n" \o
        "}\n" \o
        "\n" \o
        "async function savePreferences(prefs: UserPrefs) {\n" \o
        "  const appo = getAppo();\n" \o
        "  await appo.storage.set('user-prefs', JSON.stringify(prefs));\n" \o
        "}\n" \o
        "\n" \o
        "async function loadPreferences(): Promise<UserPrefs | null> {\n" \o
        "  const appo = getAppo();\n" \o
        "  const stored = await appo.storage.get('user-prefs');\n" \o
        "  return stored ? JSON.parse(stored) : null;\n" \o
        "}\n" \o
        "%%%\n" \o
        "\n" \o
        "## Offline Data Cache\n" \o
        "\n" \o
        "%%%tsx\n" \o
        "import { getAppo } from '@appolabs/appo';\n" \o
        "\n" \o
        "async function getCachedData<T>(key: string, fetcher: () => Promise<T>): Promise<T> {\n" \o
        "  const appo = getAppo();\n" \o
        "\n" \o
        "  // Try cache first\n" \o
        "  const cached = await appo.storage.get(key);\n" \o
        "  if (cached) {\n" \o
        "    return JSON.parse(cached);\n" \o
        "  }\n" \o
        "\n" \o
        "  // Fetch fresh data\n" \o
        "  const data = await fetcher();\n" \o
        "  await appo.storage.set(key, JSON.stringify(data));\n" \o
        "  return data;\n" \o
        "}\n" \o
        "%%%\n" \o
        "\n" \o
        "## Session Token Storage\n" \o
        "\n" \o
        "%%%tsx\n" \o
        "import { getAppo } from '@appolabs/appo';\n" \o
        "\n" \o
        "const TOKEN_KEY = 'auth-token';\n" \o
        "\n" \o
        "export async function setAuthToken(token: string) {\n" \o
        "  const appo = getAppo();\n" \o
        "  await appo.storage.set(TOKEN_KEY, token);\n" \o
        "}\n" \o
        "\n" \o
        "export async function getAuthToken(): Promise<string | null> {\n" \o
        "  const appo = getAppo();\n" \o
        "  return appo.storage.get(TOKEN_KEY);\n" \o
        "}\n" \o
        "\n" \o
        "export async function clearAuthToken() {\n" \o
        "  const appo = getAppo();\n" \o
        "  await appo.storage.delete(TOKEN_KEY);\n" \o
        "}\n" \o
        "%%%\n" \o
        ""
    ],
    [ key |-> "share",
      value |->
        "# Share Examples\n" \o
        "\n" \o
        "## Share Page\n" \o
        "\n" \o
        "%%%tsx\n" \o
        "import { getAppo } from '@appolabs/appo';\n" \o
        "\n" \o
        "function ShareButton({ title, url }: { title: string; url: string }) {\n" \o
        "  const appo = getAppo();\n" \o
        "\n" \o
        "  const handleShare = async () => {\n" \o
        "    await appo.share.open({\n" \o
        "      title,\n" \o
        "      url,\n" \o
        "    });\n" \o
        "  };\n" \o
        "\n" \o
        "  return <button onClick={handleShare}>Share</button>;\n" \o
        "}\n" \o
        "%%%\n" \o
        "\n" \o
        "## Share Product\n" \o
        "\n" \o
        "%%%tsx\n" \o
        "import { getAppo } from '@appolabs/appo';\n" \o
        "\n" \o
        "async function shareProduct(product: { name: string; price: number; url: string }) {\n" \o
        "  const appo = getAppo();\n" \o
        "\n" \o
        "  return appo.share.open({\n" \o
        "    title: product.name,\n" \o
        "    message: %Check out ${product.name} for $${product.price}!%,\n" \o
        "    url: product.url,\n" \o
        "  });\n" \o
        "}\n" \o
        "%%%\n" \o
        "\n" \o
        "## Share with Result Tracking\n" \o
        "\n" \o
        "%%%tsx\n" \o
        "import { getAppo } from '@appolabs/appo';\n" \o
        "\n" \o
        "async function shareWithTracking(content: ShareContent) {\n" \o
        "  const appo = getAppo();\n" \o
        "\n" \o
        "  const result = await appo.share.open(content);\n" \o
        "\n" \o
        "  if (result.success) {\n" \o
        "    // Track share event\n" \o
        "    analytics.track('content_shared', {\n" \o
        "      action: result.action,\n" \o
        "      url: content.url,\n" \o
        "    });\n" \o
        "  }\n" \o
        "\n" \o
        "  return result;\n" \o
        "}\n" \o
        "%%%\n" \o
        ""
    ],
    [ key |-> "network",
      value |->
        "# Network Examples\n" \o
        "\n" \o
        "## Offline Banner\n" \o
        "\n" \o
        "%%%tsx\n" \o
        "import { useState, useEffect } from 'react';\n" \o
        "import { getAppo } from '@appolabs/appo';\n" \o
        "\n" \o
        "function OfflineBanner() {\n" \o
        "  const [isOnline, setIsOnline] = useState(true);\n" \o
        "  const appo = getAppo();\n" \o
        "\n" \o
        "  useEffect(() => {\n" \o
        "    appo.network.getStatus().then((s) => setIsOnline(s?.isConnected ?? true));\n" \o
        "\n" \o
        "    return appo.network.onChange((status) => {\n" \o
        "      setIsOnline(status?.isConnected ?? true);\n" \o
        "    });\n" \o
        "  }, []);\n" \o
        "\n" \o
        "  if (isOnline) return null;\n" \o
        "\n" \o
        "  return (\n" \o
        "    <div className=\"bg-yellow-500 text-center py-2\">\n" \o
        "      You are offline. Some features may be unavailable.\n" \o
        "    </div>\n" \o
        "  );\n" \o
        "}\n" \o
        "%%%\n" \o
        "\n" \o
        "## Conditional Data Fetching\n" \o
        "\n" \o
        "%%%tsx\n" \o
        "import { getAppo } from '@appolabs/appo';\n" \o
        "\n" \o
        "async function fetchWithNetworkCheck<T>(url: string): Promise<T> {\n" \o
        "  const appo = getAppo();\n" \o
        "  const status = await appo.network.getStatus();\n" \o
        "\n" \o
        "  if (!status?.isConnected) {\n" \o
        "    throw new Error('No network connection');\n" \o
        "  }\n" \o
        "\n" \o
        "  const response = await fetch(url);\n" \o
        "  return response.json();\n" \o
        "}\n" \o
        "%%%\n" \o
        "\n" \o
        "## Network-Aware Sync\n" \o
        "\n" \o
        "%%%tsx\n" \o
        "import { getAppo } from '@appolabs/appo';\n" \o
        "\n" \o
        "function useAutoSync() {\n" \o
        "  const appo = getAppo();\n" \o
        "\n" \o
        "  useEffect(() => {\n" \o
        "    return appo.network.onChange(async (status) => {\n" \o
        "      // Sync when coming back online\n" \o
        "      if (status?.isConnected) {\n" \o
        "        await syncPendingChanges();\n" \o
        "      }\n" \o
        "    });\n" \o
        "  }, []);\n" \o
        "}\n" \o
        "%%%\n" \o
        ""
    ],
    [ key |-> "device",
      value |->
        "# Device Examples\n" \o
        "\n" \o
        "## Platform-Specific UI\n" \o
        "\n" \o
        "%%%tsx\n" \o
        "import { useState, useEffect } from 'react';\n" \o
        "import { getAppo } from '@appolabs/appo';\n" \o
        "\n" \o
        "function PlatformAwareComponent() {\n" \o
        "  const [platform, setPlatform] = useState<string>('web');\n" \o
        "  const appo = getAppo();\n" \o
        "\n" \o
        "  useEffect(() => {\n" \o
        "    appo.device.getInfo().then((info) => {\n" \o
        "      setPlatform(info.platform);\n" \o
        "    });\n" \o
        "  }, []);\n" \o
        "\n" \o
        "  if (platform === 'ios') {\n" \o
        "    return <IOSLayout />;\n" \o
        "  } else if (platform === 'android') {\n" \o
        "    return <AndroidLayout />;\n" \o
        "  }\n" \o
        "\n" \o
        "  return <WebLayout />;\n" \o
        "}\n" \o
        "%%%\n" \o
        "\n" \o
        "## Analytics Context\n" \o
        "\n" \o
        "%%%tsx\n" \o
        "import { getAppo } from '@appolabs/appo';\n" \o
        "\n" \o
        "async function trackEvent(name: string, properties: Record<string, unknown>) {\n" \o
        "  const appo = getAppo();\n" \o
        "  const deviceInfo = await appo.device.getInfo();\n" \o
        "\n" \o
        "  analytics.track(name, {\n" \o
        "    ...properties,\n" \o
        "    platform: deviceInfo.platform,\n" \o
        "    appVersion: deviceInfo.appVersion,\n" \o
        "    osVersion: deviceInfo.osVersion,\n" \o
        "    isTablet: deviceInfo.isTablet,\n" \o
        "    isNative: appo.isNative,\n" \o
        "  });\n" \o
        "}\n" \o
        "%%%\n" \o
        "\n" \o
        "## Feature Flags by Platform\n" \o
        "\n" \o
        "%%%tsx\n" \o
        "import { getAppo } from '@appolabs/appo';\n" \o
        "\n" \o
        "async function getFeatureFlags() {\n" \o
        "  const appo = getAppo();\n" \o
        "  const info = await appo.device.getInfo();\n" \o
        "\n" \o
        "  const response = await fetch('/api/feature-flags', {\n" \o
        "    method: 'POST',\n" \o
        "    body: JSON.stringify({\n" \o
        "      platform: info.platform,\n" \o
        "      appVersion: info.appVersion,\n" \o
        "    }),\n" \o
        "  });\n" \o
        "\n" \o
        "  return response.json();\n" \o
        "}\n" \o
        "%%%\n" \o
        ""
    ]
  >>

\* examples.ts:619-872
getTroubleshooting ==
  "# Troubleshooting @appolabs/appo\n" \o
  "\n" \o
  "## Common Issues\n" \o
  "\n" \o
  "### SDK Not Working in Browser\n" \o
  "\n" \o
  "**Symptom:** Features return null or don't work in browser.\n" \o
  "\n" \o
  "**Cause:** The SDK is designed for React Native WebViews. Browser fallbacks are intentionally limited.\n" \o
  "\n" \o
  "**Solution:**\n" \o
  "%%%typescript\n" \o
  "const appo = getAppo();\n" \o
  "\n" \o
  "if (!appo.isNative) {\n" \o
  "  console.log('Running in browser - limited features');\n" \o
  "  // Implement web fallback\n" \o
  "}\n" \o
  "%%%\n" \o
  "\n" \o
  "---\n" \o
  "\n" \o
  "### Permission Always Returns 'denied'\n" \o
  "\n" \o
  "**Symptom:** %requestPermission()% always returns 'denied'.\n" \o
  "\n" \o
  "**Causes:**\n" \o
  "1. Running in browser (fallback behavior)\n" \o
  "2. User previously denied permission\n" \o
  "3. Missing Info.plist/AndroidManifest configuration\n" \o
  "\n" \o
  "**Solutions:**\n" \o
  "- Check %appo.isNative% first\n" \o
  "- For iOS: Add usage description to Info.plist\n" \o
  "- For Android: Add permission to AndroidManifest.xml\n" \o
  "- Guide users to enable in device Settings\n" \o
  "\n" \o
  "---\n" \o
  "\n" \o
  "### Push Token is Null\n" \o
  "\n" \o
  "**Symptom:** %getToken()% returns null.\n" \o
  "\n" \o
  "**Causes:**\n" \o
  "1. Permission not granted\n" \o
  "2. Running in browser\n" \o
  "3. Expo push not configured\n" \o
  "\n" \o
  "**Solution:**\n" \o
  "%%%typescript\n" \o
  "async function getPushToken() {\n" \o
  "  const appo = getAppo();\n" \o
  "\n" \o
  "  // Check native context\n" \o
  "  if (!appo.isNative) {\n" \o
  "    console.log('Push requires native app');\n" \o
  "    return null;\n" \o
  "  }\n" \o
  "\n" \o
  "  // Request permission first\n" \o
  "  const status = await appo.push.requestPermission();\n" \o
  "  if (status !== 'granted') {\n" \o
  "    console.log('Permission denied');\n" \o
  "    return null;\n" \o
  "  }\n" \o
  "\n" \o
  "  // Now get token\n" \o
  "  const token = await appo.push.getToken();\n" \o
  "  return token;\n" \o
  "}\n" \o
  "%%%\n" \o
  "\n" \o
  "---\n" \o
  "\n" \o
  "### Biometrics Not Available\n" \o
  "\n" \o
  "**Symptom:** %isAvailable()% returns false.\n" \o
  "\n" \o
  "**Causes:**\n" \o
  "1. Device lacks biometric hardware\n" \o
  "2. No biometrics enrolled\n" \o
  "3. Running in simulator/browser\n" \o
  "\n" \o
  "**Solution:**\n" \o
  "%%%typescript\n" \o
  "const available = await appo.biometrics.isAvailable();\n" \o
  "\n" \o
  "if (!available) {\n" \o
  "  // Offer PIN/password fallback\n" \o
  "  return { authMethod: 'password' };\n" \o
  "}\n" \o
  "%%%\n" \o
  "\n" \o
  "---\n" \o
  "\n" \o
  "### Camera Returns Null\n" \o
  "\n" \o
  "**Symptom:** %takePicture()% returns null.\n" \o
  "\n" \o
  "**Causes:**\n" \o
  "1. Permission not granted\n" \o
  "2. User cancelled capture\n" \o
  "3. Running in browser\n" \o
  "\n" \o
  "**Solution:**\n" \o
  "%%%typescript\n" \o
  "const photo = await appo.camera.takePicture();\n" \o
  "\n" \o
  "if (!photo) {\n" \o
  "  // User cancelled or error occurred\n" \o
  "  console.log('No photo captured');\n" \o
  "  return;\n" \o
  "}\n" \o
  "%%%\n" \o
  "\n" \o
  "---\n" \o
  "\n" \o
  "### Storage Not Persisting\n" \o
  "\n" \o
  "**Symptom:** Stored values disappear.\n" \o
  "\n" \o
  "**Causes:**\n" \o
  "1. App reinstalled (clears storage)\n" \o
  "2. Async timing issue\n" \o
  "3. Storage quota exceeded\n" \o
  "\n" \o
  "**Solution:**\n" \o
  "%%%typescript\n" \o
  "// Always await storage operations\n" \o
  "await appo.storage.set('key', 'value');\n" \o
  "\n" \o
  "// Verify write\n" \o
  "const saved = await appo.storage.get('key');\n" \o
  "console.log('Saved:', saved);\n" \o
  "%%%\n" \o
  "\n" \o
  "---\n" \o
  "\n" \o
  "### TypeScript Errors\n" \o
  "\n" \o
  "**Symptom:** Types not found or import errors.\n" \o
  "\n" \o
  "**Causes:**\n" \o
  "1. Package not installed\n" \o
  "2. TypeScript config issue\n" \o
  "\n" \o
  "**Solutions:**\n" \o
  "1. Reinstall: %pnpm add @appolabs/appo%\n" \o
  "2. Check tsconfig.json:\n" \o
  "   %%%json\n" \o
  "   {\n" \o
  "     \"compilerOptions\": {\n" \o
  "       \"moduleResolution\": \"bundler\",\n" \o
  "       \"esModuleInterop\": true\n" \o
  "     }\n" \o
  "   }\n" \o
  "   %%%\n" \o
  "3. Restart TypeScript server\n" \o
  "\n" \o
  "---\n" \o
  "\n" \o
  "### Network Status Incorrect\n" \o
  "\n" \o
  "**Symptom:** Shows offline when online or vice versa.\n" \o
  "\n" \o
  "**Cause:** Browser fallback uses %navigator.onLine% which has limited accuracy.\n" \o
  "\n" \o
  "**Solution:** Use onChange listener and verify with actual requests:\n" \o
  "%%%typescript\n" \o
  "useEffect(() => {\n" \o
  "  return appo.network.onChange((status) => {\n" \o
  "    setIsOnline(status?.isConnected ?? true);\n" \o
  "  });\n" \o
  "}, []);\n" \o
  "%%%\n" \o
  "\n" \o
  "---\n" \o
  "\n" \o
  "## Debugging Tips\n" \o
  "\n" \o
  "### 1. Check SDK Version\n" \o
  "\n" \o
  "%%%typescript\n" \o
  "const appo = getAppo();\n" \o
  "console.log('SDK Version:', appo.version);\n" \o
  "console.log('Is Native:', appo.isNative);\n" \o
  "%%%\n" \o
  "\n" \o
  "### 2. Get Device Info\n" \o
  "\n" \o
  "%%%typescript\n" \o
  "const info = await appo.device.getInfo();\n" \o
  "console.log('Platform:', info.platform);\n" \o
  "console.log('OS:', info.osVersion);\n" \o
  "%%%\n" \o
  "\n" \o
  "### 3. Enable Verbose Logging\n" \o
  "\n" \o
  "Add try/catch with detailed logging:\n" \o
  "\n" \o
  "%%%typescript\n" \o
  "try {\n" \o
  "  console.log('Requesting permission...');\n" \o
  "  const status = await appo.push.requestPermission();\n" \o
  "  console.log('Permission result:', status);\n" \o
  "} catch (error) {\n" \o
  "  console.error('Permission error:', error);\n" \o
  "}\n" \o
  "%%%\n" \o
  "\n" \o
  "### 4. Test Native Bridge\n" \o
  "\n" \o
  "Verify the bridge is working:\n" \o
  "\n" \o
  "%%%typescript\n" \o
  "const appo = getAppo();\n" \o
  "\n" \o
  "if (appo.isNative) {\n" \o
  "  console.log('Native bridge active');\n" \o
  "\n" \o
  "  // Test a simple call\n" \o
  "  const info = await appo.device.getInfo();\n" \o
  "  console.log('Bridge working:', !!info);\n" \o
  "} else {\n" \o
  "  console.log('Not in native context');\n" \o
  "}\n" \o
  "%%%\n" \o
  "\n" \o
  "## Getting Help\n" \o
  "\n" \o
  "If you're still stuck:\n" \o
  "\n" \o
  "1. **Check the docs:** Use %appo://api/{feature}% resources\n" \o
  "2. **Review examples:** Use %appo://examples/{feature}% resources\n" \o
  "3. **Use diagnose_issue tool:** Describe your symptom\n" \o
  "4. **Check GitHub issues:** Look for similar problems\n" \o
  "5. **Open an issue:** Include SDK version, platform, and steps to reproduce\n" \o
  "\n" \o
  "## Quick Reference\n" \o
  "\n" \o
  "| Issue | Quick Fix |\n" \o
  "|-------|-----------|\n" \o
  "| Not working in browser | Check %appo.isNative% |\n" \o
  "| Permission denied | Request before using |\n" \o
  "| Token is null | Request permission first |\n" \o
  "| Biometrics unavailable | Provide fallback auth |\n" \o
  "| Camera returns null | Handle cancellation |\n" \o
  "| Storage lost | Await operations |\n" \o
  "| Types not working | Reinstall package |\n" \o
  "| Network incorrect | Use onChange listener |\n" \o
  ""

\* best-practices.ts:1-269
getBestPractices ==
  "# @appolabs/appo Best Practices\n" \o
  "\n" \o
  "## 1. Always Check Native Context\n" \o
  "\n" \o
  "Before using native-only features, check if running in native app:\n" \o
  "\n" \o
  "%%%typescript\n" \o
  "const appo = getAppo();\n" \o
  "\n" \o
  "if (appo.isNative) {\n" \o
  "  // Full native features available\n" \o
  "  const token = await appo.push.getToken();\n" \o
  "} else {\n" \o
  "  // Running in browser - show alternative\n" \o
  "  console.log('Native app required for push notifications');\n" \o
  "}\n" \o
  "%%%\n" \o
  "\n" \o
  "## 2. Request Permissions Properly\n" \o
  "\n" \o
  "### Explain Before Requesting\n" \o
  "\n" \o
  "Always explain WHY you need permission before requesting:\n" \o
  "\n" \o
  "%%%tsx\n" \o
  "function LocationRequest() {\n" \o
  "  const [showExplanation, setShowExplanation] = useState(true);\n" \o
  "\n" \o
  "  if (showExplanation) {\n" \o
  "    return (\n" \o
  "      <div>\n" \o
  "        <p>We need your location to find stores near you.</p>\n" \o
  "        <button onClick={() => {\n" \o
  "          setShowExplanation(false);\n" \o
  "          requestPermission();\n" \o
  "        }}>\n" \o
  "          Continue\n" \o
  "        </button>\n" \o
  "      </div>\n" \o
  "    );\n" \o
  "  }\n" \o
  "\n" \o
  "  return null;\n" \o
  "}\n" \o
  "%%%\n" \o
  "\n" \o
  "### Handle All Permission States\n" \o
  "\n" \o
  "%%%typescript\n" \o
  "const status = await appo.push.requestPermission();\n" \o
  "\n" \o
  "switch (status) {\n" \o
  "  case 'granted':\n" \o
  "    // Proceed with feature\n" \o
  "    break;\n" \o
  "  case 'denied':\n" \o
  "    // Show instructions to enable in Settings\n" \o
  "    break;\n" \o
  "  case 'undetermined':\n" \o
  "    // Initial state - will prompt user\n" \o
  "    break;\n" \o
  "}\n" \o
  "%%%\n" \o
  "\n" \o
  "## 3. Implement Graceful Fallbacks\n" \o
  "\n" \o
  "Design for both native and web contexts:\n" \o
  "\n" \o
  "%%%tsx\n" \o
  "function ShareButton() {\n" \o
  "  const appo = getAppo();\n" \o
  "\n" \o
  "  const handleShare = async () => {\n" \o
  "    if (appo.isNative) {\n" \o
  "      await appo.share.open({ url: window.location.href });\n" \o
  "    } else {\n" \o
  "      // Web fallback - copy to clipboard\n" \o
  "      await navigator.clipboard.writeText(window.location.href);\n" \o
  "      toast('Link copied to clipboard');\n" \o
  "    }\n" \o
  "  };\n" \o
  "\n" \o
  "  return <button onClick={handleShare}>Share</button>;\n" \o
  "}\n" \o
  "%%%\n" \o
  "\n" \o
  "## 4. Handle Errors Gracefully\n" \o
  "\n" \o
  "Always wrap SDK calls in try/catch:\n" \o
  "\n" \o
  "%%%typescript\n" \o
  "async function getLocation() {\n" \o
  "  const appo = getAppo();\n" \o
  "\n" \o
  "  try {\n" \o
  "    const position = await appo.location.getCurrentPosition();\n" \o
  "    return position;\n" \o
  "  } catch (error) {\n" \o
  "    console.error('Location error:', error);\n" \o
  "    // Show user-friendly message\n" \o
  "    return null;\n" \o
  "  }\n" \o
  "}\n" \o
  "%%%\n" \o
  "\n" \o
  "## 5. Clean Up Event Listeners\n" \o
  "\n" \o
  "Always unsubscribe from listeners in useEffect:\n" \o
  "\n" \o
  "%%%tsx\n" \o
  "useEffect(() => {\n" \o
  "  const unsubscribe = appo.push.onMessage((message) => {\n" \o
  "    // Handle message\n" \o
  "  });\n" \o
  "\n" \o
  "  return () => {\n" \o
  "    unsubscribe(); // Clean up on unmount\n" \o
  "  };\n" \o
  "}, []);\n" \o
  "%%%\n" \o
  "\n" \o
  "## 6. Use Loading States\n" \o
  "\n" \o
  "Show loading indicators for async operations:\n" \o
  "\n" \o
  "%%%tsx\n" \o
  "function BiometricAuth() {\n" \o
  "  const [isLoading, setIsLoading] = useState(false);\n" \o
  "\n" \o
  "  const handleAuth = async () => {\n" \o
  "    setIsLoading(true);\n" \o
  "    try {\n" \o
  "      await appo.biometrics.authenticate('Verify identity');\n" \o
  "    } finally {\n" \o
  "      setIsLoading(false);\n" \o
  "    }\n" \o
  "  };\n" \o
  "\n" \o
  "  return (\n" \o
  "    <button onClick={handleAuth} disabled={isLoading}>\n" \o
  "      {isLoading ? 'Authenticating...' : 'Login with Face ID'}\n" \o
  "    </button>\n" \o
  "  );\n" \o
  "}\n" \o
  "%%%\n" \o
  "\n" \o
  "## 7. Store Sensitive Data Securely\n" \o
  "\n" \o
  "Use storage for session data, not credentials:\n" \o
  "\n" \o
  "%%%typescript\n" \o
  "// Good: Store session token\n" \o
  "await appo.storage.set('session-token', token);\n" \o
  "\n" \o
  "// Bad: Don't store passwords\n" \o
  "// await appo.storage.set('password', password); // Don't do this!\n" \o
  "%%%\n" \o
  "\n" \o
  "## 8. Test on Real Devices\n" \o
  "\n" \o
  "- Simulator/Emulator: Good for development\n" \o
  "- Real Device: Required for testing:\n" \o
  "  - Biometrics (Face ID, Touch ID)\n" \o
  "  - Push notifications\n" \o
  "  - Haptics\n" \o
  "  - Actual camera behavior\n" \o
  "\n" \o
  "## 9. Handle Network Changes\n" \o
  "\n" \o
  "Implement offline-first patterns:\n" \o
  "\n" \o
  "%%%tsx\n" \o
  "function App() {\n" \o
  "  const [isOnline, setIsOnline] = useState(true);\n" \o
  "\n" \o
  "  useEffect(() => {\n" \o
  "    const appo = getAppo();\n" \o
  "\n" \o
  "    return appo.network.onChange((status) => {\n" \o
  "      setIsOnline(status?.isConnected ?? true);\n" \o
  "\n" \o
  "      if (status?.isConnected) {\n" \o
  "        // Sync pending changes\n" \o
  "        syncQueue.process();\n" \o
  "      }\n" \o
  "    });\n" \o
  "  }, []);\n" \o
  "\n" \o
  "  return (\n" \o
  "    <NetworkContext.Provider value={isOnline}>\n" \o
  "      {/* App content */}\n" \o
  "    </NetworkContext.Provider>\n" \o
  "  );\n" \o
  "}\n" \o
  "%%%\n" \o
  "\n" \o
  "## 10. Type Your SDK Usage\n" \o
  "\n" \o
  "Leverage TypeScript for safety:\n" \o
  "\n" \o
  "%%%typescript\n" \o
  "import { getAppo, type PermissionStatus, type PushMessage } from '@appolabs/appo';\n" \o
  "\n" \o
  "function handlePermission(status: PermissionStatus) {\n" \o
  "  // TypeScript ensures status is valid\n" \o
  "}\n" \o
  "\n" \o
  "function handleMessage(message: PushMessage) {\n" \o
  "  // Full type inference on message properties\n" \o
  "}\n" \o
  "%%%\n" \o
  "\n" \o
  "## 11. Centralize SDK Initialization\n" \o
  "\n" \o
  "Create a hook or context for SDK access:\n" \o
  "\n" \o
  "%%%tsx\n" \o
  "// hooks/useAppo.ts\n" \o
  "import { useMemo } from 'react';\n" \o
  "import { getAppo } from '@appolabs/appo';\n" \o
  "\n" \o
  "export function useAppo() {\n" \o
  "  return useMemo(() => getAppo(), []);\n" \o
  "}\n" \o
  "\n" \o
  "// Usage\n" \o
  "function MyComponent() {\n" \o
  "  const appo = useAppo();\n" \o
  "  // ...\n" \o
  "}\n" \o
  "%%%\n" \o
  "\n" \o
  "## 12. Log Important Events\n" \o
  "\n" \o
  "Track SDK usage for debugging:\n" \o
  "\n" \o
  "%%%typescript\n" \o
  "async function requestPushPermission() {\n" \o
  "  const appo = getAppo();\n" \o
  "\n" \o
  "  console.log('Requesting push permission...');\n" \o
  "  const status = await appo.push.requestPermission();\n" \o
  "  console.log('Push permission result:', status);\n" \o
  "\n" \o
  "  if (status === 'granted') {\n" \o
  "    const token = await appo.push.getToken();\n" \o
  "    console.log('Push token received:', token?.slice(0, 20) + '...');\n" \o
  "  }\n" \o
  "\n" \o
  "  return status;\n" \o
  "}\n" \o
  "%%%\n" \o
  "\n" \o
  "## Summary Checklist\n" \o
  "\n" \o
  "- [ ] Check %appo.isNative% before native-only features\n" \o
  "- [ ] Explain why permissions are needed\n" \o
  "- [ ] Handle all permission states\n" \o
  "- [ ] Implement web fallbacks\n" \o
  "- [ ] Wrap calls in try/catch\n" \o
  "- [ ] Clean up event listeners\n" \o
  "- [ ] Show loading states\n" \o
  "- [ ] Test on real devices\n" \o
  "- [ ] Handle offline scenarios\n" \o
  "- [ ] Use TypeScript types\n" \o
  ""

\* part_002:117-197
getOverview ==
  "# @appolabs/appo SDK Overview\n" \o
  "\n" \o
  "## What is Appo?\n" \o
  "\n" \o
  "@appolabs/appo is a JavaScript SDK that provides a bridge between your web application and native mobile features when running inside an Appo-powered React Native WebView.\n" \o
  "\n" \o
  "## Key Features\n" \o
  "\n" \o
  "The SDK provides access to 9 native feature categories:\n" \o
  "\n" \o
  "| Feature | Description |\n" \o
  "|---------|-------------|\n" \o
  "| **Push Notifications** | Request permission, get device token, receive notifications |\n" \o
  "| **Biometrics** | Face ID / Touch ID authentication |\n" \o
  "| **Camera** | Capture photos with the device camera |\n" \o
  "| **Location** | Access GPS coordinates |\n" \o
  "| **Haptics** | Trigger tactile feedback |\n" \o
  "| **Storage** | Persistent key-value storage |\n" \o
  "| **Share** | Native share sheet |\n" \o
  "| **Network** | Monitor connectivity status |\n" \o
  "| **Device** | Get device information |\n" \o
  "\n" \o
  "## Installation\n" \o
  "\n" \o
  "%%%bash\n" \o
  "npm install @appolabs/appo\n" \o
  "# or\n" \o
  "pnpm add @appolabs/appo\n" \o
  "%%%\n" \o
  "\n" \o
  "## Basic Usage\n" \o
  "\n" \o
  "%%%typescript\n" \o
  "import { getAppo } from '@appolabs/appo';\n" \o
  "\n" \o
  "const appo = getAppo();\n" \o
  "\n" \o
  "// Check if running in native app\n" \o
  "if (appo.isNative) {\n" \o
  "  // Full native functionality available\n" \o
  "  const token = await appo.push.getToken();\n" \o
  "} else {\n" \o
  "  // Running in browser - fallbacks active\n" \o
  "}\n" \o
  "%%%\n" \o
  "\n" \o
  "## Architecture\n" \o
  "\n" \o
  "The SDK uses a message-passing protocol to communicate with the React Native host:\n" \o
  "\n" \o
  "1. Your web code calls SDK methods\n" \o
  "2. SDK sends structured messages to React Native\n" \o
  "3. React Native processes requests and sends responses\n" \o
  "4. SDK resolves promises with results\n" \o
  "\n" \o
  "## Graceful Fallbacks\n" \o
  "\n" \o
  "All SDK methods work in both native and web contexts:\n" \o
  "\n" \o
  "- **Native**: Full functionality via React Native bridge\n" \o
  "- **Web**: Sensible fallbacks (localStorage, navigator APIs, or null returns)\n" \o
  "\n" \o
  "This means you can develop and test in a browser, then deploy to the native app.\n" \o
  "\n" \o
  "## TypeScript Support\n" \o
  "\n" \o
  "The SDK is written in TypeScript and provides full type definitions:\n" \o
  "\n" \o
  "%%%typescript\n" \o
  "import { getAppo, type PermissionStatus, type PushMessage } from '@appolabs/appo';\n" \o
  "%%%\n" \o
  "\n" \o
  "## Next Steps\n" \o
  "\n" \o
  "- Read the API reference for each feature\n" \o
  "- Check the examples for common patterns\n" \o
  "- Review best practices for production apps\n" \o
  ""

(* ------------------------------- inputs -------------------------------- *)

\* All sequences over S of length 1..n.
SeqsUpTo(S, n) == UNION { [1..k -> S] : k \in 1..n }

\* Phrases a symptom description is put together from.
SymptomFrags ==
  { "push token is null",
    "permission denied and undefined token",
    "takePicture returns null",
    "xyzzy quux" }

Symptoms == { join(fs, " ") : fs \in SeqsUpTo(SymptomFrags, MaxSymptomFrags) }

SymptomValues ==
  { Str(s) : s \in Symptoms } \cup { Undefined, Null, Str(""), Num(0), Num(5), Bool(TRUE) }

\* index.ts: SDK_FEATURES
SDK_FEATURES ==
  << "push", "biometrics", "camera", "location", "haptics",
     "storage", "share", "network", "device" >>

\* Hints tried with diagnose_issue: two features named by a title or a
\* keyword of an entry the symptoms above match, one named by none, no hint,
\* a name that is no feature, a number.
FeatureHints ==
  { Str("push"), Str("camera"), Str("device"), Undefined, Str("bluetooth"), Num(5) }

\* errorMessage and platform are only echoed.
ErrorMessages == { Undefined, Str("TypeError: token is null") }

Platforms == { Undefined, Str("ios") }

EchoedPairs ==
  { << Undefined, Undefined >>,
    << Undefined, Str("ios") >>,
    << Str("TypeError: token is null"), Str("ios") >> }

DiagnoseArgs ==
  { [ symptom |-> s, feature |-> f, errorMessage |-> ep[1], platform |-> ep[2] ] :
      s \in SymptomValues, f \in FeatureHints, ep \in EchoedPairs }

\* Statements a code snippet is put together from, one per line.
CodeFrags ==
  { "const photo = await appo.camera.takePicture();",
    "const status = await appo.camera.requestPermission();",
    "if (status === 'denied') { alert('Camera access is needed'); }",
    "if (result === \"denied\") return null;",
    "try { token = await appo.push.getToken(); } catch (e) { }",
    "appo.location.getCurrentPosition().then(show);",
    "// retry takePicture later" }

Codes == { join(fs, "\n") : fs \in SeqsUpTo(CodeFrags, MaxCodeFrags) }

\* The snippets, the three recommended patterns themselves, and values that
\* are no snippet.
CodeValues ==
  { Str(c) : c \in Codes }
    \cup { Str(patterns[i].value) : i \in 1..Len(patterns) }
    \cup { Undefined, Str(""), Num(5) }

PermissionFeatureValues ==
  { Str("push"), Str("camera"), Str("location"),
    Str("bluetooth"), Str("constructor"), Str(""), Undefined, Num(5) }

CheckPermissionsArgs ==
  { [ code |-> c, feature |-> f ] : c \in CodeValues, f \in PermissionFeatureValues }

\* Feature values sent to the three generators: the nine SDK features, a
\* name that is no feature, two names every object inherits, none, a number.
GeneratorFeatureValues ==
  { Str(SDK_FEATURES[i]) : i \in 1..Len(SDK_FEATURES) }
    \cup { Str("bluetooth"), Str("__proto__"), Str("toString"), Undefined, Num(5) }

GenerateHookArgs ==
  { [ feature |-> f, hookName |-> h, includeLoading |-> l, includeError |-> e ] :
      f \in GeneratorFeatureValues,
      h \in { Undefined, Str("useMyHook"), Str("") },
      l \in { Undefined, Bool(FALSE) },
      e \in { Undefined, Bool(FALSE) } }

GenerateComponentArgs ==
  { [ feature |-> f, componentName |-> c, styling |-> s ] :
      f \in GeneratorFeatureValues,
      c \in { Undefined, Str("MyWidget") },
      s \in { Undefined, Str("css"), Str("none") } }

ScaffoldFeatureArgs ==
  { [ feature |-> f, directory |-> d, includeTests |-> t ] :
      f \in GeneratorFeatureValues,
      d \in { Undefined, Str("app") },
      t \in { Undefined, Bool(TRUE), Bool(FALSE) } }

PackageJsons ==
  { Undefined,
    Str("null"),
    Str("{oops"),
    Str("{}"),
    Str("[1, 2]"),
    Str("{\"dependencies\": {\"@appolabs/appo\": \"^1.2.0\", \"react\": \"^18.2.0\", \"typescript\": \"^5.0.0\"}}"),
    Str("{\"dependencies\": {\"@appolabs/appo\": \"^0.3.1\", \"react\": \"15.6.2\"}}"),
    Str("{\"dependencies\": {\"react\": \"latest\"}, \"devDependencies\": {\"@appolabs/appo\": \"1.0.0\", \"react\": \"~17.0.2\"}}"),
    Str("{\"dependencies\": {\"@appolabs/appo\": 1}}") }

TsConfigs ==
  { Undefined,
    Str("{\"compilerOptions\": {\"strict\": true, \"esModuleInterop\": true, \"moduleResolution\": \"Bundler\"}}"),
    Str("{\"compilerOptions\": {\"moduleResolution\": \"classic\"}}"),
    Str("null"),
    Str("{bad") }

SampleCodes ==
  { Undefined,
    Str("import { getAppo } from '@appolabs/appo';\nconst appo = getAppo();\nappo.push.getToken();"),
    Str("window.appo.camera.takePicture()"),
    Num(5) }

ValidateSetupArgs ==
  { [ packageJson |-> p, tsConfig |-> t, sampleCode |-> c ] :
      p \in PackageJsons, t \in TsConfigs, c \in SampleCodes }

\* Names that are no tool.
OtherToolNames == { "", "diagnose", "toString" }

Requests ==
  { [tool |-> "generate_hook", args |-> a] : a \in GenerateHookArgs }
    \cup { [tool |-> "generate_component", args |-> a] : a \in GenerateComponentArgs }
    \cup { [tool |-> "scaffold_feature", args |-> a] : a \in ScaffoldFeatureArgs }
    \cup { [tool |-> "validate_setup", args |-> a] : a \in ValidateSetupArgs }
    \cup { [tool |-> "check_permissions", args |-> a] : a \in CheckPermissionsArgs }
    \cup { [tool |-> "diagnose_issue", args |-> a] : a \in DiagnoseArgs }
    \cup { [tool |-> n, args |-> NoProps] : n \in OtherToolNames }

(* ------------------------------ behaviour ------------------------------ *)

NoResult == [kind |-> "none", text |-> ""]

\* The locals of the handlers before any of them has run.
localsUntouched ==
  /\ matchedIssues = << >>
  /\ featureIssues = << >>
  /\ relevantIssues = << >>
  /\ analysis = emptyAnalysis
  /\ validation = emptyValidation
  /\ files = << >>

\* The places a call in flight can occupy.
Slots == 1..MaxInFlight

\* The frame of a place no call occupies.
idleFrame ==
  [ tool |-> "", args |-> NoProps, pc |-> "idle", out |-> NoResult,
    matchedIssues |-> << >>, featureIssues |-> << >>, relevantIssues |-> << >>,
    analysis |-> emptyAnalysis ]

\* A request has arrived and has not been served yet.
Init ==
  /\ knownIssues = knownIssuesLiteral
  /\ featureApiMap = featureApiMapLiteral
  /\ call \in Requests
  /\ result = NoResult
  /\ localsUntouched
  /\ inflight = [slot \in Slots |-> idleFrame]
  /\ completed = {}

\* handleToolCall serves the request and answers.
served(name) ==
  /\ result = NoResult
  /\ call.tool = name
  /\ result' = handleToolCall(call.tool, call.args)
  /\ UNCHANGED << featureApiMap, call, inflight, completed >>

\* handleToolCall, case "generate_hook"
GenerateHook ==
  /\ served("generate_hook")
  /\ UNCHANGED << knownIssues, matchedIssues, featureIssues, relevantIssues, analysis, validation, files >>

\* handleToolCall, case "generate_component"
GenerateComponent ==
  /\ served("generate_component")
  /\ UNCHANGED << knownIssues, matchedIssues, featureIssues, relevantIssues, analysis, validation, files >>

\* handleToolCall, case "scaffold_feature"
ScaffoldFeature ==
  /\ served("scaffold_feature")
  /\ files' = scaffoldFeatureRun(call.args).files
  /\ UNCHANGED << knownIssues, matchedIssues, featureIssues, relevantIssues,
                  analysis, validation >>

\* handleToolCall, case "validate_setup"
ValidateSetup ==
  /\ served("validate_setup")
  /\ validation' = validateSetupRun(call.args).validation
  /\ UNCHANGED << knownIssues, matchedIssues, featureIssues, relevantIssues,
                  analysis, files >>

\* handleToolCall, case "check_permissions"
CheckPermissions ==
  /\ served("check_permissions")
  /\ analysis' = checkPermissionsRun(call.args).analysis
  /\ UNCHANGED << knownIssues, matchedIssues, featureIssues, relevantIssues,
                  validation, files >>

\* handleToolCall, case "diagnose_issue"
DiagnoseIssue ==
  /\ served("diagnose_issue")
  /\ LET run == diagnoseRun(call.args)
     IN  /\ matchedIssues' = run.matchedIssues
         /\ featureIssues' = run.featureIssues
         /\ relevantIssues' = run.relevantIssues
         /\ knownIssues' = catalogueAfterFilter(knownIssues, run.matchedIssues)
  /\ UNCHANGED << analysis, validation, files >>

\* handleToolCall, default case
UnknownTool ==
  /\ result = NoResult
  /\ \A i \in 1..Len(toolNames) : call.tool # toolNames[i]
  /\ result' = handleToolCall(call.tool, call.args)
  /\ UNCHANGED << knownIssues, featureApiMap, call,
                  matchedIssues, featureIssues, relevantIssues, analysis, validation, files,
                  inflight, completed >>

Next ==
  \/ GenerateHook
  \/ GenerateComponent
  \/ ScaffoldFeature
  \/ ValidateSetup
  \/ CheckPermissions
  \/ DiagnoseIssue
  \/ UnknownTool

Spec == Init /\ [][Next]_vars

(* -------------------------- overlapping calls -------------------------- *)

(* The handlers are async functions and handleToolCall awaits them, so a   *)
(* client may have several calls in flight.  SpecConc runs up to           *)
(* MaxInFlight calls at a time, each on a frame of its own, and lets their *)
(* steps interleave statement group by statement group; that is every      *)
(* schedule the event loop can produce, and more.                          *)

\* The calls a client sends while others are in flight.
ConcRequests ==
  { [ tool |-> "diagnose_issue",
      args |-> [ symptom |-> Str("push token is null"), feature |-> Str("device"),
                 errorMessage |-> Undefined, platform |-> Undefined ] ],
    [ tool |-> "diagnose_issue",
      args |-> [ symptom |-> Str("xyzzy quux"), feature |-> Undefined,
                 errorMessage |-> Undefined, platform |-> Str("ios") ] ],
    [ tool |-> "check_permissions",
      args |-> [ code |-> Str("const photo = await appo.camera.takePicture();"),
                 feature |-> Str("camera") ] ],
    [ tool |-> "generate_hook",
      args |-> [ feature |-> Str("haptics"), hookName |-> Undefined,
                 includeLoading |-> Undefined, includeError |-> Undefined ] ] }

\* No request is pending outside the frames.
noCall == [ tool |-> "", args |-> NoProps ]

InitConc ==
  /\ knownIssues = knownIssuesLiteral
  /\ featureApiMap = featureApiMapLiteral
  /\ call = noCall
  /\ result = NoResult
  /\ localsUntouched
  /\ inflight = [slot \in Slots |-> idleFrame]
  /\ completed = {}

\* Locals that live in one place shared by every call.
localsShared(slot) == inflight[1]

\* The locals a step of the call in a slot reads: const and let bindings of
\* its own invocation (part_000:338-379, check-permissions.ts:37-62, 73).
localsOf(slot) == inflight[slot]

\* A step of the call in a slot leaves its frame as f.
put(slot, f) == inflight' = [inflight EXCEPT ![slot] = f]

sequentialUntouched ==
  UNCHANGED << featureApiMap, call, result,
               matchedIssues, featureIssues, relevantIssues, analysis, validation, files >>

running(slot, tool, pc) == inflight[slot].tool = tool /\ inflight[slot].pc = pc

\* A client sends a request; handleToolCall starts on it.
Receive(slot) ==
  /\ inflight[slot].pc = "idle"
  /\ \E req \in ConcRequests :
       put(slot, [ idleFrame EXCEPT !.tool = req.tool, !.args = req.args, !.pc = "start" ])
  /\ sequentialUntouched
  /\ UNCHANGED << knownIssues, completed >>

\* part_000:338-355  the guard on symptom, searchTerms and matchedIssues
DiagMatch(slot) ==
  /\ running(slot, "diagnose_issue", "start")
  /\ LET f == inflight[slot]
         symptom == field(f.args, "symptom")
     IN  IF symptomMissing(symptom)
           THEN /\ put(slot, [ f EXCEPT !.out = Return(SymptomPrompt), !.pc = "done" ])
                /\ UNCHANGED knownIssues
         ELSE IF ~isString(symptom)
           THEN /\ put(slot, [ f EXCEPT !.out = Throw("TypeError"), !.pc = "done" ])
                /\ UNCHANGED knownIssues
         ELSE LET matched == matchedIssuesOf(symptom.s)
              IN  /\ put(slot, [ f EXCEPT !.matchedIssues = matched, !.pc = "narrow" ])
                  /\ knownIssues' = catalogueAfterFilter(knownIssues, matched)
  /\ sequentialUntouched
  /\ UNCHANGED completed

\* part_000:358-364  featureIssues
DiagNarrow(slot) ==
  /\ running(slot, "diagnose_issue", "narrow")
  /\ LET f == inflight[slot]
     IN  put(slot, [ f EXCEPT
           !.featureIssues =
              featureIssuesOf(localsOf(slot).matchedIssues, field(f.args, "feature")),
           !.pc = "render" ])
  /\ sequentialUntouched
  /\ UNCHANGED << knownIssues, completed >>

\* part_000:366-383  relevantIssues and the report
DiagRender(slot) ==
  /\ running(slot, "diagnose_issue", "render")
  /\ LET f == inflight[slot]
         relevant ==
           relevantIssuesOf(localsOf(slot).featureIssues, localsOf(slot).matchedIssues)
         text ==
           IF Len(relevant) = 0
             THEN buildGenericDiagnosis(field(f.args, "symptom").s,
                                        field(f.args, "feature"),
                                        field(f.args, "errorMessage"),
                                        field(f.args, "platform"))
             ELSE buildDiagnosisOutput(relevant, field(f.args, "platform"))
     IN  put(slot, [ f EXCEPT !.relevantIssues = relevant,
                              !.out = Return(text), !.pc = "done" ])
  /\ sequentialUntouched
  /\ UNCHANGED << knownIssues, completed >>

\* check-permissions.ts:37-59, 73-138  the two guards, the fresh analysis
\* and its six flags
PermFlags(slot) ==
  /\ running(slot, "check_permissions", "start")
  /\ LET f == inflight[slot]
         code == field(f.args, "code")
         feature == field(f.args, "feature")
     IN  IF ~truthy(code) \/ ~truthy(feature)
           THEN put(slot, [ f EXCEPT !.out = Return(MissingArgsMessage), !.pc = "done" ])
         ELSE IF lookupKind(featureApiMap, feature) = "undefined"
           THEN put(slot, [ f EXCEPT !.out = Return(invalidFeatureMessage), !.pc = "done" ])
         ELSE IF ~isString(code)
           THEN put(slot, [ f EXCEPT !.out = Throw("TypeError"), !.pc = "done" ])
         ELSE put(slot, [ f EXCEPT !.analysis = withFlags(emptyAnalysis, code.s),
                                   !.pc = "findings" ])
  /\ sequentialUntouched
  /\ UNCHANGED << knownIssues, completed >>

\* check-permissions.ts:140-180  issues and suggestions
PermFindings(slot) ==
  /\ running(slot, "check_permissions", "findings")
  /\ LET f == inflight[slot]
         code == field(f.args, "code")
         feature == field(f.args, "feature")
     IN  IF lookupKind(featureApiMap, feature) # "own"
           THEN put(slot, [ f EXCEPT !.out = Throw("TypeError"), !.pc = "done" ])
           ELSE put(slot, [ f EXCEPT
                  !.analysis =
                     withFindings(localsOf(slot).analysis, code.s, toString(feature),
                                  ownEntry(featureApiMap, toString(feature)).protectedMethods),
                  !.pc = "render" ])
  /\ sequentialUntouched
  /\ UNCHANGED << knownIssues, completed >>

\* check-permissions.ts:62-66  the report
PermRender(slot) ==
  /\ running(slot, "check_permissions", "render")
  /\ LET f == inflight[slot]
     IN  put(slot, [ f EXCEPT
           !.out = Return(buildAnalysisOutput(toString(field(f.args, "feature")),
                                              localsOf(slot).analysis)),
           !.pc = "done" ])
  /\ sequentialUntouched
  /\ UNCHANGED << knownIssues, completed >>

\* The tools that build their text in one expression from their arguments.
OtherCall(slot) ==
  /\ inflight[slot].pc = "start"
  /\ inflight[slot].tool \notin { "diagnose_issue", "check_permissions" }
  /\ LET f == inflight[slot]
     IN  put(slot, [ f EXCEPT !.out = handleToolCall(f.tool, f.args), !.pc = "done" ])
  /\ sequentialUntouched
  /\ UNCHANGED << knownIssues, completed >>

\* The promise of the call settles: the client has its answer.
Respond(slot) ==
  /\ inflight[slot].pc = "done"
  /\ completed' = completed \cup
       { [ tool |-> inflight[slot].tool, args |-> inflight[slot].args,
           out |-> inflight[slot].out ] }
  /\ put(slot, idleFrame)
  /\ sequentialUntouched
  /\ UNCHANGED knownIssues

NextConc ==
  \/ \E slot \in Slots : Receive(slot)
  \/ \E slot \in Slots : DiagMatch(slot)
  \/ \E slot \in Slots : DiagNarrow(slot)
  \/ \E slot \in Slots : DiagRender(slot)
  \/ \E slot \in Slots : PermFlags(slot)
  \/ \E slot \in Slots : PermFindings(slot)
  \/ \E slot \in Slots : PermRender(slot)
  \/ \E slot \in Slots : OtherCall(slot)
  \/ \E slot \in Slots : Respond(slot)

SpecConc == InitConc /\ [][NextConc]_vars

(* -------------------- part_002: handleResourceRead --------------------- *)

ApiUri(feature) == "appo://api/" \o feature

ExamplesUri(feature) == "appo://examples/" \o feature

\* part_002:9-45  the advertised resources, in list order
resources ==
  [ i \in 1..Len(SDK_FEATURES) |->
      [ uri |-> ApiUri(SDK_FEATURES[i]),
        name |-> "API: " \o SDK_FEATURES[i],
        description |-> "API reference for appo." \o SDK_FEATURES[i],
        mimeType |-> "text/markdown" ] ]
  \o
  [ i \in 1..Len(SDK_FEATURES) |->
      [ uri |-> ExamplesUri(SDK_FEATURES[i]),
        name |-> "Examples: " \o SDK_FEATURES[i],
        description |-> "Code examples for " \o SDK_FEATURES[i] \o " feature",
        mimeType |-> "text/markdown" ] ]
  \o
  << [ uri |-> "appo://best-practices",
       name |-> "Best Practices",
       description |-> "Integration best practices and patterns",
       mimeType |-> "text/markdown" ],
     [ uri |-> "appo://troubleshooting",
       name |-> "Troubleshooting",
       description |-> "Common issues and solutions",
       mimeType |-> "text/markdown" ],
     [ uri |-> "appo://overview",
       name |-> "SDK Overview",
       description |-> "Overview of @appolabs/appo SDK capabilities",
       mimeType |-> "text/markdown" ] >>

\* The position of the first occurrence of a one-character separator.
firstIndexOf(s, sep) ==
  CHOOSE i \in 1..Len(s) :
    SubSeq(s, i, i) = sep /\ \A j \in 1..(i - 1) : SubSeq(s, j, j) # sep

\* String.prototype.split(sep) for a one-character separator.
RECURSIVE split(_, _)
split(s, sep) ==
  IF ~includes(s, sep) THEN << s >>
  ELSE << SubSeq(s, 1, firstIndexOf(s, sep) - 1) >>
         \o split(SubSeq(s, firstIndexOf(s, sep) + 1, Len(s)), sep)

UriScheme == "appo://"

\* part_002:100  uri.match(/^appo:\/\/(.+)$/): the scheme followed by at
\* least one character, none of them a line terminator.
uriMatches(uri) ==
  /\ startsWith(uri, UriScheme)
  /\ Len(uri) > Len(UriScheme)
  /\ ~includes(uri, "\n")
  /\ ~includes(uri, "\r")

NoParse == [ ok |-> FALSE, type |-> "", feature |-> Undefined ]

\* part_002:103-114  the parts of the path
parsePath(parts) ==
  IF Len(parts) = 1 THEN [ ok |-> TRUE, type |-> parts[1], feature |-> Undefined ]
  ELSE IF Len(parts) = 2 THEN [ ok |-> TRUE, type |-> parts[1], feature |-> Str(parts[2]) ]
  ELSE NoParse

\* part_002:97-115  null is [ok |-> FALSE]
parseUri(uri) ==
  IF ~uriMatches(uri) THEN NoParse
  ELSE parsePath(split(slice(uri, Len(UriScheme)), "/"))

\* Object.prototype[key]: an object for __proto__, a function otherwise.
Inherited(key) ==
  IF key = "__proto__" THEN Obj(NoProps)
  ELSE [ t |-> "function", s |-> key, n |-> 0, o |-> NoProps ]

\* table[feature] || message: the table's text, an inherited member (which
\* is truthy), or the message with the feature printed in it.
docOr(table, feature, message) ==
  CASE lookupKind(table, feature) = "own" -> Str(ownEntry(table, toString(feature)).value)
    [] lookupKind(table, feature) = "inherited" -> Inherited(toString(feature))
    [] OTHER -> Str(message \o toString(feature))

\* api-reference.ts:528-530
getApiReference(feature) ==
  docOr(apiDocs, feature, "No API documentation found for feature: ")

\* examples.ts:615-617
getExamples(feature) ==
  docOr(examples, feature, "No examples found for feature: ")

\* A switch that serves the API reference under examples as well.
resourceContentApiOnly(target) ==
  CASE target.type = "api"             -> getApiReference(target.feature)
    [] target.type = "examples"        -> getApiReference(target.feature)
    [] target.type = "best-practices"  -> Str(getBestPractices)
    [] target.type = "troubleshooting" -> Str(getTroubleshooting)
    [] target.type = "overview"        -> Str(getOverview)
    [] OTHER -> Str("Unknown resource type: " \o target.type)

\* part_002:66-84  the switch on parsed.type
resourceContent(target) ==
  CASE target.type = "api"             -> getApiReference(target.feature)
    [] target.type = "examples"        -> getExamples(target.feature)
    [] target.type = "best-practices"  -> Str(getBestPractices)
    [] target.type = "troubleshooting" -> Str(getTroubleshooting)
    [] target.type = "overview"        -> Str(getOverview)
    [] OTHER -> Str("Unknown resource type: " \o target.type)

\* part_002:86-94  the envelope: one content item
ResourceReturn(uri, content) ==
  [ kind |-> "return",
    contents |-> << [ uri |-> uri, mimeType |-> "text/markdown", text |-> content ] >> ]

\* part_002:47-95
handleResourceRead(uri) ==
  IF ~parseUri(uri).ok
    THEN ResourceReturn(uri, Str("Unknown resource: " \o uri))
    ELSE ResourceReturn(uri, resourceContent(parseUri(uri)))

(* ------------------------- resource read calls ------------------------- *)

\* Path types asked for: the five served ones, one that is not, the empty one.
UriTypes ==
  { "api", "examples", "best-practices", "troubleshooting", "overview", "guides", "" }

\* Second path segments asked for: the nine features, a name that is no
\* feature, two names every object inherits, the empty one.
UriFeatures ==
  { SDK_FEATURES[i] : i \in 1..Len(SDK_FEATURES) }
    \cup { "bluetooth", "constructor", "__proto__", "" }

\* URIs that do not have the shape scheme, type, optional feature.
MalformedUris ==
  { "", "appo://", "appo:/api/push", "http://api/push", "APPO://overview",
    " appo://overview", "appo://api/push/extra", "appo://overview\n",
    "appo://api/pu\nsh" }

ResourceUris ==
  { UriScheme \o t : t \in UriTypes }
    \cup { UriScheme \o t \o "/" \o f : t \in UriTypes, f \in UriFeatures }
    \cup MalformedUris

ResourceRequests ==
  { [ tool |-> "resources/read", args |-> [ uri |-> u ] ] : u \in ResourceUris }

\* A resource read has arrived and has not been served yet.
InitResources ==
  /\ knownIssues = knownIssuesLiteral
  /\ featureApiMap = featureApiMapLiteral
  /\ call \in ResourceRequests
  /\ result = NoResult
  /\ localsUntouched
  /\ inflight = [slot \in Slots |-> idleFrame]
  /\ completed = {}

\* handleResourceRead serves the request and answers.
ReadResource ==
  /\ result = NoResult
  /\ call.tool = "resources/read"
  /\ result' = handleResourceRead(call.args.uri)
  /\ UNCHANGED << knownIssues, featureApiMap, call,
                  matchedIssues, featureIssues, relevantIssues, analysis, validation, files,
                  inflight, completed >>

NextResources == ReadResource

SpecResources == InitResources /\ [][NextResources]_vars

(* ------------------- prompts/index.ts: handlePromptGet ----------------- *)

\* prompts/index.ts:95-124  the text of the setup_wizard prompt
setupWizardText(isNew, framework) ==
  "# @appolabs/appo SDK Setup Wizard\n" \o
  "\n" \o
  "I need help setting up the @appolabs/appo SDK in my " \o (IF isNew THEN "new" ELSE "existing") \o " " \o toString(framework) \o " project.\n" \o
  "\n" \o
  "## Context\n" \o
  "\n" \o
  "- **Project Type:** " \o (IF isNew THEN "New project" ELSE "Existing project") \o "\n" \o
  "- **Framework:** " \o toString(framework) \o "\n" \o
  "\n" \o
  "## What I Need\n" \o
  "\n" \o
  "Please guide me through:\n" \o
  "\n" \o
  "1. **Installation**\n" \o
  "   - How to install the @appolabs/appo package\n" \o
  "   - Any peer dependencies needed\n" \o
  "\n" \o
  "2. **Basic Setup**\n" \o
  "   - How to initialize and use the SDK\n" \o
  "   - TypeScript configuration if needed\n" \o
  "\n" \o
  "3. **First Feature**\n" \o
  "   - Help me implement a simple feature to verify the setup works\n" \o
  "   - Suggest checking %appo.isNative% and %appo.device.getInfo()%\n" \o
  "\n" \o
  "4. **Next Steps**\n" \o
  "   - What features are available\n" \o
  "   - How to test in development vs native app\n" \o
  "\n" \o
  "Please provide step-by-step instructions with code examples. Use the generate_hook and generate_component tools to create any needed code."

\* A condition that holds for every feature that is a string.
recommendsCheckPermissionsAlways(feature) == isString(feature)

\* prompts/index.ts:179  the features the prompt recommends check_permissions for
recommendsCheckPermissions(feature) ==
  feature = Str("push") \/ feature = Str("camera") \/ feature = Str("location")

\* prompts/index.ts:154-187  the text of the integrate_feature prompt, given
\* the printed feature name
integrateFeatureText(featureName, feature, requirements) ==
  "# Integrate " \o featureName \o " with @appolabs/appo\n" \o
  "\n" \o
  "I want to add " \o toLowerCase(featureName) \o " functionality to my app using the @appolabs/appo SDK.\n" \o
  "\n" \o
  "## Feature: " \o toString(feature) \o "\n" \o
  "\n" \o
  (IF truthy(requirements) THEN "## Specific Requirements\n" \o toString(requirements) \o "\n" ELSE "") \o "\n" \o
  "\n" \o
  "## What I Need\n" \o
  "\n" \o
  "Please help me:\n" \o
  "\n" \o
  "1. **Understand the API**\n" \o
  "   - What methods are available for %appo." \o toString(feature) \o "%\n" \o
  "   - What are the return types and parameters\n" \o
  "\n" \o
  "2. **Create a Custom Hook**\n" \o
  "   - Use the %generate_hook% tool with feature=\"" \o toString(feature) \o "\"\n" \o
  "   - Include loading and error states\n" \o
  "\n" \o
  "3. **Create a UI Component**\n" \o
  "   - Use the %generate_component% tool with feature=\"" \o toString(feature) \o "\"\n" \o
  "   - Use Tailwind CSS for styling\n" \o
  "\n" \o
  "4. **Handle Edge Cases**\n" \o
  "   " \o (IF recommendsCheckPermissions(feature) THEN "- Use %check_permissions% tool to review permission handling" ELSE "") \o "\n" \o
  "   - What happens in web browsers (fallback behavior)\n" \o
  "   - Error handling best practices\n" \o
  "\n" \o
  "5. **Testing**\n" \o
  "   - How to test in development\n" \o
  "   - What to test on actual devices\n" \o
  "\n" \o
  "Please read the %appo://api/" \o toString(feature) \o "% and %appo://examples/" \o toString(feature) \o "% resources first, then generate the code."

\* prompts/index.ts:203-247  the text of the debug_assistant prompt
debugAssistantText(issue, logs) ==
  "# Debug @appolabs/appo Issue\n" \o
  "\n" \o
  "I'm having trouble with the @appolabs/appo SDK and need help debugging.\n" \o
  "\n" \o
  "## Issue Description\n" \o
  "\n" \o
  toString(issue) \o "\n" \o
  "\n" \o
  (IF truthy(logs) THEN "## Error Logs / Console Output\n%%%\n" \o toString(logs) \o "\n%%%\n" ELSE "") \o "\n" \o
  "\n" \o
  "## What I Need\n" \o
  "\n" \o
  "Please help me:\n" \o
  "\n" \o
  "1. **Diagnose the Issue**\n" \o
  "   - Use the %diagnose_issue% tool with the symptom description\n" \o
  "   - Identify the most likely cause\n" \o
  "\n" \o
  "2. **Verify Setup**\n" \o
  "   - Check if the SDK is properly installed\n" \o
  "   - Confirm we're in the right context (native vs web)\n" \o
  "\n" \o
  "3. **Debug Steps**\n" \o
  "   - Provide specific code to add for debugging\n" \o
  "   - What to check in the console\n" \o
  "\n" \o
  "4. **Solution**\n" \o
  "   - Provide a fix or workaround\n" \o
  "   - Explain why this happened\n" \o
  "\n" \o
  "Please also check the %appo://troubleshooting% resource for known issues.\n" \o
  "\n" \o
  "## Debug Snippet to Start\n" \o
  "\n" \o
  "%%%typescript\n" \o
  "import { getAppo } from '@appolabs/appo';\n" \o
  "\n" \o
  "const appo = getAppo();\n" \o
  "console.log('SDK Version:', appo.version);\n" \o
  "console.log('Is Native:', appo.isNative);\n" \o
  "\n" \o
  "appo.device.getInfo().then(info => {\n" \o
  "  console.log('Device:', info);\n" \o
  "});\n" \o
  "%%%"

\* prompts/index.ts:134-144
featureNames ==
  << [ key |-> "push",       value |-> "Push Notifications" ],
     [ key |-> "biometrics", value |-> "Biometric Authentication" ],
     [ key |-> "camera",     value |-> "Camera Capture" ],
     [ key |-> "location",   value |-> "Location Services" ],
     [ key |-> "haptics",    value |-> "Haptic Feedback" ],
     [ key |-> "storage",    value |-> "Persistent Storage" ],
     [ key |-> "share",      value |-> "Native Share" ],
     [ key |-> "network",    value |-> "Network Status" ],
     [ key |-> "device",     value |-> "Device Information" ] >>

\* prompts/index.ts:69-79, 89-128  the envelope: one user message
PromptReturn(text) ==
  [ kind |-> "return",
    messages |-> << [ role |-> "user", content |-> [ type |-> "text", text |-> text ] ] >> ]

\* prompts/index.ts:84-129
getSetupWizardPrompt(args) ==
  PromptReturn(setupWizardText(field(args, "projectType") = Str("new"),
                               orDefault(field(args, "framework"), Str("react"))))

\* prompts/index.ts:146  featureNames[feature] || feature: the table's name,
\* an inherited member (which is truthy), or the feature itself.
featureNameOf(feature) ==
  CASE lookupKind(featureNames, feature) = "own" ->
         Str(ownEntry(featureNames, toString(feature)).value)
    [] lookupKind(featureNames, feature) = "inherited" -> Inherited(toString(feature))
    [] OTHER -> feature

\* prompts/index.ts:131-192.  featureName.toLowerCase() is a TypeError when
\* featureName is no string: feature is missing or no string, or names a
\* member every object inherits.
getIntegrateFeaturePrompt(args) ==
  LET feature == field(args, "feature")
      requirements == orDefault(field(args, "requirements"), Str(""))
      featureName == featureNameOf(feature)
  IN  IF ~isString(featureName) THEN Throw("TypeError")
      ELSE PromptReturn(integrateFeatureText(featureName.s, feature, requirements))

\* prompts/index.ts:194-252
getDebugAssistantPrompt(args) ==
  PromptReturn(debugAssistantText(field(args, "issue"),
                                  orDefault(field(args, "logs"), Str(""))))

\* prompts/index.ts:58-82
handlePromptGet(name, args) ==
  CASE name = "setup_wizard" -> getSetupWizardPrompt(args)
    [] name = "integrate_feature" -> getIntegrateFeaturePrompt(args)
    [] name = "debug_assistant" -> getDebugAssistantPrompt(args)
    [] OTHER -> PromptReturn("Unknown prompt: " \o name)

(* ----------------------------- prompt calls ---------------------------- *)

\* Feature values sent to integrate_feature: the nine SDK features, a name
\* that is no feature, two names every object inherits, the empty one, none, a
\* number.
PromptFeatureValues ==
  { Str(SDK_FEATURES[i]) : i \in 1..Len(SDK_FEATURES) }
    \cup { Str("bluetooth"), Str("constructor"), Str("__proto__"), Str(""), Undefined, Num(5) }

PromptRequests ==
  { [ tool |-> "prompts/get",
      args |-> [ name |-> "integrate_feature",
                 arguments |-> [ feature |-> f, requirements |-> r ] ] ] :
      f \in PromptFeatureValues,
      r \in { Undefined, Str(""), Str("Must work offline") } }
  \cup
  { [ tool |-> "prompts/get",
      args |-> [ name |-> "setup_wizard",
                 arguments |-> [ projectType |-> p, framework |-> w ] ] ] :
      p \in { Undefined, Str("new"), Str("existing") },
      w \in { Undefined, Str("next"), Str("") } }
  \cup
  { [ tool |-> "prompts/get",
      args |-> [ name |-> "debug_assistant",
                 arguments |-> [ issue |-> s, logs |-> l ] ] ] :
      s \in { Undefined, Str("push token is null") },
      l \in { Undefined, Str(""), Str("TypeError: token is null") } }
  \cup
  { [ tool |-> "prompts/get", args |-> [ name |-> n, arguments |-> NoProps ] ] :
      n \in { "", "integrate", "toString" } }

\* A prompt request has arrived and has not been served yet.
InitPrompts ==
  /\ knownIssues = knownIssuesLiteral
  /\ featureApiMap = featureApiMapLiteral
  /\ call \in PromptRequests
  /\ result = NoResult
  /\ localsUntouched
  /\ inflight = [slot \in Slots |-> idleFrame]
  /\ completed = {}

\* handlePromptGet serves the request and answers.
GetPrompt ==
  /\ result = NoResult
  /\ call.tool = "prompts/get"
  /\ result' = handlePromptGet(call.args.name, call.args.arguments)
  /\ UNCHANGED << knownIssues, featureApiMap, call,
                  matchedIssues, featureIssues, relevantIssues, analysis, validation, files,
                  inflight, completed >>

NextPrompts == GetPrompt

SpecPrompts == InitPrompts /\ [][NextPrompts]_vars

(* ------------------------- properties: diagnose ------------------------ *)

\* The pending request was a diagnose_issue call and it has been answered.
diagnosed == call.tool = "diagnose_issue" /\ result # NoResult

\* The pending request was a check_permissions call and it has been answered.
permissionsChecked == call.tool = "check_permissions" /\ result # NoResult

nonEmptyString(v) == isString(v) /\ v.s # ""

\* A lowercased symptom contains one of the entry's keywords as stored.
keywordHit(issue, lowered) ==
  \E k \in 1..Len(issue.symptoms) : includes(lowered, issue.symptoms[k])

\* A lowercased symptom contains one of the entry's keywords, lowercased.
foldedKeywordHit(issue, lowered) ==
  \E k \in 1..Len(issue.symptoms) : includes(lowered, toLowerCase(issue.symptoms[k]))

\* The symptom of the pending call, lowercased.
loweredSymptom == toLowerCase(call.args.symptom.s)

\* The entry is one of the first three of the entries the report is built from.
amongShown(issue) ==
  \E j \in 1..3 : j <= Len(relevantIssues) /\ relevantIssues[j] = issue

\* C1 as stated: for every non-empty symptom and every feature hint, every
\* catalogue entry with a keyword in the lowercased symptom has its title in
\* the report diagnoseIssue returns.
C1_EveryMatchedTitleReported ==
  (diagnosed /\ nonEmptyString(call.args.symptom)) =>
    LET lowered == loweredSymptom
    IN  \A i \in 1..Len(knownIssues) :
      keywordHit(knownIssues[i], lowered) =>
        result.kind = "return" /\ includes(result.text, knownIssues[i].title)

\* C1, amended: every catalogue entry with a keyword in the lowercased
\* symptom that is among the first three entries left after the feature hint
\* has narrowed the matches has its title in the report.
C1_ShownTitlesReported ==
  (diagnosed /\ nonEmptyString(call.args.symptom)) =>
    LET lowered == loweredSymptom
    IN  \A i \in 1..Len(knownIssues) :
      (amongShown(knownIssues[i]) /\ keywordHit(knownIssues[i], lowered)) =>
        result.kind = "return"
          /\ includes(result.text, "### " \o knownIssues[i].title \o "\n")

\* A symptom that matches four entries has been diagnosed and the third of
\* them is in the report.
C1_Witness ==
  /\ diagnosed
  /\ nonEmptyString(call.args.symptom)
  /\ Len(relevantIssues) > 3
  /\ keywordHit(relevantIssues[3], loweredSymptom)
  /\ includes(result.text, relevantIssues[3].title)

\* No entry the keywords matched mentions the feature in its lowercased title
\* or in a keyword.
hintMatchesNothing(feature) ==
  \A i \in 1..Len(matchedIssues) :
    /\ ~includes(toLowerCase(matchedIssues[i].title), toString(feature))
    /\ \A k \in 1..Len(matchedIssues[i].symptoms) :
         ~includes(matchedIssues[i].symptoms[k], toString(feature))

\* C4: when the keywords match some entry and the feature hint matches none
\* of the matched entries, the report is the catalogue report built from the
\* whole matched set, never the generic fallback.
C4_HintNeverEmptiesMatches ==
  (diagnosed /\ Len(matchedIssues) > 0 /\ truthy(call.args.feature)
     /\ hintMatchesNothing(call.args.feature)) =>
    /\ relevantIssues = matchedIssues
    /\ result.kind = "return"
    /\ startsWith(result.text, "## Diagnosis Results\n")
    /\ ~includes(result.text, "### General Troubleshooting Steps")
    /\ \A j \in 1..3 :
         j <= Len(matchedIssues) =>
           includes(result.text, "### " \o matchedIssues[j].title \o "\n")

\* 'push token is null' with the hint 'device' has been diagnosed and the
\* report shows the push-token entry.
C4_Witness ==
  /\ diagnosed
  /\ call.args.symptom = Str("push token is null")
  /\ call.args.feature = Str("device")
  /\ featureIssues = << >>
  /\ includes(result.text, "### Push token is null")

\* C7: an absent or empty symptom is answered with exactly the fixed prompt.
C7_MissingSymptomPrompt ==
  (diagnosed /\ call.args.symptom \in { Undefined, Str("") }) =>
    /\ result =
         Return("Please describe the issue you're experiencing in the %symptom% parameter.")
    /\ matchedIssues = << >>
    /\ relevantIssues = << >>

\* A call with the empty symptom has been answered with the prompt.
C7_Witness ==
  /\ diagnosed
  /\ call.args.symptom = Str("")
  /\ startsWith(result.text, "Please describe the issue")

\* The text is the generic report: the five troubleshooting steps and the
\* debugging snippet.
isGenericReport(text) ==
  /\ includes(text, "### General Troubleshooting Steps\n")
  /\ includes(text, "1. **Check native context:**")
  /\ includes(text, "2. **Check permissions:**")
  /\ includes(text, "3. **Check installation:**")
  /\ includes(text, "4. **Check console:**")
  /\ includes(text, "5. **Test on device:**")
  /\ includes(text, "### Debug Code\n")
  /\ includes(text, "function debugSdk() {")

\* C8 as stated: a non-empty symptom whose lowercased text contains no
\* catalogue keyword is answered with the generic report, never with an
\* empty text.
C8_NoStoredKeywordGeneric ==
  (diagnosed /\ nonEmptyString(call.args.symptom)
     /\ LET lowered == loweredSymptom
        IN  \A i \in 1..Len(knownIssues) : ~keywordHit(knownIssues[i], lowered)) =>
    result.kind = "return" /\ result.text # "" /\ isGenericReport(result.text)

\* C8, amended: a non-empty symptom whose lowercased text contains no
\* catalogue keyword, the keywords lowercased as well, is answered with the
\* generic report, never with an empty text.
C8_NoKeywordGeneric ==
  (diagnosed /\ nonEmptyString(call.args.symptom)
     /\ LET lowered == loweredSymptom
        IN  \A i \in 1..Len(knownIssues) : ~foldedKeywordHit(knownIssues[i], lowered)) =>
    result.kind = "return" /\ result.text # "" /\ isGenericReport(result.text)

\* 'xyzzy quux' has been diagnosed and answered with the fifth step.
C8_Witness ==
  /\ diagnosed
  /\ call.args.symptom = Str("xyzzy quux")
  /\ matchedIssues = << >>
  /\ includes(result.text, "5. **Test on device:** Some features only work on physical devices")

(* --------------------- properties: checkPermissions -------------------- *)

\* C2 as stated: a non-empty code string with a feature name other than
\* push, camera and location is answered with the 'Invalid feature' message
\* that lists the three features; checkPermissions never throws.
C2_InvalidFeatureAnswered ==
  (permissionsChecked /\ nonEmptyString(call.args.code)
     /\ nonEmptyString(call.args.feature)
     /\ call.args.feature.s \notin { "push", "camera", "location" }) =>
    result =
      Return("Invalid feature. Permission-required features are: push, camera, location")

\* C3 as stated: whatever the arguments, every tool reached through
\* handleToolCall returns one non-empty text; none throws.
C3_EveryToolAnswers ==
  (result # NoResult /\ \E i \in 1..Len(toolNames) : call.tool = toolNames[i]) =>
    result.kind = "return" /\ result.text # ""

\* The number of entries of a list that contain a text.
countNaming(xs, sub) == Cardinality({ i \in 1..Len(xs) : includes(xs[i], sub) })

\* C5: for camera, code that calls .takePicture( and nowhere contains
\* requestPermission has hasPermissionRequest false and an issues list with
\* exactly one entry naming takePicture next to the generic 'No
\* requestPermission() call found' issue.
C5_UnprotectedTakePicture ==
  (permissionsChecked /\ call.args.feature = Str("camera")
     /\ isString(call.args.code)
     /\ includes(call.args.code.s, ".takePicture(")
     /\ ~includes(call.args.code.s, "requestPermission")) =>
    /\ ~analysis.hasPermissionRequest
    /\ countNaming(analysis.issues, "takePicture") = 1
    /\ countNaming(analysis.issues, "No %requestPermission()% call found for camera.") = 1
    /\ result.kind = "return"
    /\ includes(result.text,
         "Protected method %takePicture% is used without requesting permission first.")
    /\ includes(result.text, "No %requestPermission()% call found for camera.")

\* The bare takePicture call has been analysed for camera.
C5_Witness ==
  /\ permissionsChecked
  /\ call.args.feature = Str("camera")
  /\ call.args.code = Str("const photo = await appo.camera.takePicture();")
  /\ Len(analysis.issues) = 3
  /\ includes(analysis.issues[1], "takePicture")

\* C6: for each of push, camera and location, code that contains
\* requestPermission and a quoted 'denied' has hasPermissionRequest and
\* hasDeniedHandling true, and neither default issue is reported.
C6_RequestAndDeniedHandled ==
  (permissionsChecked /\ call.args.feature \in { Str("push"), Str("camera"), Str("location") }
     /\ isString(call.args.code)
     /\ includes(call.args.code.s, "requestPermission")
     /\ (includes(call.args.code.s, "'denied'") \/ includes(call.args.code.s, "\"denied\""))) =>
    /\ analysis.hasPermissionRequest
    /\ analysis.hasDeniedHandling
    /\ countNaming(analysis.issues, "call found for") = 0
    /\ countNaming(analysis.issues, "No handling for 'denied' permission status") = 0
    /\ result.kind = "return"
    /\ ~includes(result.text, "call found for")
    /\ ~includes(result.text, "No handling for 'denied' permission status")

\* A request followed by a double-quoted denied check has been analysed for
\* push and no issue was found.
C6_Witness ==
  /\ permissionsChecked
  /\ call.args.feature = Str("push")
  /\ isString(call.args.code)
  /\ includes(call.args.code.s, "requestPermission")
  /\ includes(call.args.code.s, "\"denied\"")
  /\ ~includes(call.args.code.s, "'denied'")
  /\ analysis.issues = << >>
  /\ result.kind = "return"

(* --------------------- properties: overlapping calls ------------------- *)

\* The answers the server has produced: those delivered and those of the
\* frames whose call has finished.
answers ==
  completed \cup
    { [ tool |-> inflight[slot].tool, args |-> inflight[slot].args,
        out |-> inflight[slot].out ] : slot \in { s \in Slots : inflight[s].pc = "done" } }

\* C9: two calls of a tool with identical arguments get identical text,
\* whatever other calls were served before or between them.
C9_SameArgumentsSameText ==
  \A a \in answers : \A b \in answers :
    (a.tool = b.tool /\ a.args = b.args) => a.out = b.out

\* A diagnose_issue call has finished again after the same call and a
\* check_permissions call had been answered.
C9_Witness ==
  \E slot \in Slots :
    /\ inflight[slot].pc = "done"
    /\ inflight[slot].tool = "diagnose_issue"
    /\ inflight[slot].out.kind = "return"
    /\ \E a \in completed : a.tool = inflight[slot].tool /\ a.args = inflight[slot].args
    /\ \E b \in completed : b.tool = "check_permissions"

\* C10: a call that overlaps other calls returns the text the same call
\* returns when it runs alone.
C10_OverlapSameAsAlone ==
  \A slot \in Slots :
    inflight[slot].pc = "done" =>
      inflight[slot].out = handleToolCall(inflight[slot].tool, inflight[slot].args)

\* Two different diagnose_issue calls are in flight: one has its text, the
\* other is between its two filters.
C10_Witness ==
  \E s \in Slots : \E t \in Slots :
    /\ s # t
    /\ inflight[s].tool = "diagnose_issue" /\ inflight[s].pc = "done"
    /\ inflight[t].tool = "diagnose_issue" /\ inflight[t].pc = "narrow"
    /\ inflight[s].args # inflight[t].args
    /\ inflight[s].out.kind = "return"


(* ------------------ properties: diagnose, second part ------------------ *)

\* The answered diagnose_issue call took the matched path: the report was
\* built from at least one catalogue entry.
onMatchedPath == diagnosed /\ nonEmptyString(call.args.symptom) /\ Len(relevantIssues) > 0

\* The answered diagnose_issue call took the fallback path.
onFallbackPath == diagnosed /\ nonEmptyString(call.args.symptom) /\ Len(relevantIssues) = 0

\* C11: on the matched path the text is the same whatever errorMessage is
\* (the call with errorMessage replaced by any other value returns the same
\* text) and the message is not shown; on the fallback path a supplied
\* errorMessage is echoed verbatim on its own line; a supplied platform is
\* echoed verbatim on both paths.
C11_ErrorMessageOnlyInFallback ==
  /\ onMatchedPath =>
       /\ \A e \in ErrorMessages :
            diagnoseIssue([call.args EXCEPT !.errorMessage = e]) = result
       /\ ~includes(result.text, "**Error:**")
       /\ nonEmptyString(call.args.platform) =>
            includes(result.text, "\nPlatform: **" \o call.args.platform.s \o "**\n")
  /\ onFallbackPath =>
       /\ nonEmptyString(call.args.errorMessage) =>
            includes(result.text, "\n**Error:** " \o call.args.errorMessage.s \o "\n")
       /\ nonEmptyString(call.args.platform) =>
            includes(result.text, "\n**Platform:** " \o call.args.platform.s \o "\n")

\* 'xyzzy quux' was diagnosed with an error message and a platform and both
\* are in the generic report.
C11_FallbackEchoed ==
  /\ onFallbackPath
  /\ call.args.errorMessage = Str("TypeError: token is null")
  /\ call.args.platform = Str("ios")
  /\ includes(result.text, "**Error:** TypeError: token is null")
  /\ includes(result.text, "**Platform:** ios")

\* 'push token is null' was diagnosed with an error message and a platform:
\* the catalogue report shows the platform and not the message.
C11_Witness ==
  /\ onMatchedPath
  /\ call.args.errorMessage = Str("TypeError: token is null")
  /\ call.args.platform = Str("ios")
  /\ includes(result.text, "Platform: **ios**")
  /\ ~includes(result.text, "TypeError")

(* ------------------------ properties: dispatch ------------------------- *)

\* The names the README lists under Available Tools.
ReadmeTools ==
  { "generate_hook", "generate_component", "scaffold_feature",
    "validate_setup", "check_permissions", "diagnose_issue" }

\* What the handler a tool name belongs to returns for the arguments.
ownHandler(name, args) ==
  CASE name = "generate_hook"      -> generateHook(args)
    [] name = "generate_component" -> generateComponent(args)
    [] name = "scaffold_feature"   -> scaffoldFeature(args)
    [] name = "validate_setup"     -> validateSetup(args)
    [] name = "check_permissions"  -> checkPermissions(args)
    [] name = "diagnose_issue"     -> diagnoseIssue(args)

\* C12: the advertised tool names are the six of the README; a call to any
\* of them is answered by that tool's own handler and never with 'Unknown
\* tool'; a call to any other name is answered with the single text
\* 'Unknown tool: <name>' and does not throw.
C12_DispatchMatchesCatalogue ==
  /\ { toolNames[i] : i \in 1..Len(toolNames) } = ReadmeTools
  /\ Len(toolNames) = Cardinality(ReadmeTools)
  /\ result # NoResult =>
       IF call.tool \in ReadmeTools
         THEN /\ result = ownHandler(call.tool, call.args)
              /\ ~startsWith(result.text, "Unknown tool")
         ELSE result = Return("Unknown tool: " \o call.tool)

\* A call to 'toString', which is no tool, has been answered.
C12_Witness ==
  /\ call.tool = "toString"
  /\ result = Return("Unknown tool: toString")

(* ------------------------ properties: resources ------------------------ *)

\* The pending request was a resource read and it has been answered.
resourceRead == call.tool = "resources/read" /\ result # NoResult

\* The URI is one of the advertised ones.
advertised(uri) == \E i \in 1..Len(resources) : resources[i].uri = uri

\* The first line of the documentation a URI stands for, taken from the
\* headings of the documents.
FeatureHeading ==
  [ push |-> "Push Notifications", biometrics |-> "Biometrics", camera |-> "Camera",
    location |-> "Location", haptics |-> "Haptics", storage |-> "Storage",
    share |-> "Share", network |-> "Network", device |-> "Device" ]

expectedHeading(uri) ==
  CASE uri = "appo://best-practices"  -> "# @appolabs/appo Best Practices\n"
    [] uri = "appo://troubleshooting" -> "# Troubleshooting @appolabs/appo\n"
    [] uri = "appo://overview"        -> "# @appolabs/appo SDK Overview\n"
    [] startsWith(uri, "appo://api/") ->
         "# " \o FeatureHeading[slice(uri, Len("appo://api/"))] \o " API\n"
    [] startsWith(uri, "appo://examples/") ->
         "# " \o FeatureHeading[slice(uri, Len("appo://examples/"))] \o " Examples\n"

\* C13: the advertised URIs are the API and examples URIs of the nine
\* features and the three guides; reading any of them returns one content
\* item that echoes the URI with mimeType text/markdown and carries the
\* documentation that URI stands for, never an 'Unknown resource', 'Unknown
\* resource type' or 'No ... found' message.
C13_AdvertisedResourcesResolve ==
  /\ { resources[i].uri : i \in 1..Len(resources) } =
       { ApiUri(SDK_FEATURES[i]) : i \in 1..Len(SDK_FEATURES) }
         \cup { ExamplesUri(SDK_FEATURES[i]) : i \in 1..Len(SDK_FEATURES) }
         \cup { "appo://best-practices", "appo://troubleshooting", "appo://overview" }
  /\ Len(SDK_FEATURES) = 9
  /\ (resourceRead /\ advertised(call.args.uri)) =>
       /\ result.kind = "return"
       /\ Len(result.contents) = 1
       /\ result.contents[1].uri = call.args.uri
       /\ result.contents[1].mimeType = "text/markdown"
       /\ isString(result.contents[1].text)
       /\ startsWith(result.contents[1].text.s, expectedHeading(call.args.uri))
       /\ ~startsWith(result.contents[1].text.s, "Unknown resource")
       /\ ~startsWith(result.contents[1].text.s, "No API documentation found")
       /\ ~startsWith(result.contents[1].text.s, "No examples found")

\* The examples of the share feature have been read.
C13_Witness ==
  /\ resourceRead
  /\ call.args.uri = "appo://examples/share"
  /\ startsWith(result.contents[1].text.s, "# Share Examples\n")

(* ------------------------ properties: generators ----------------------- *)

\* The pending request was a generate_hook call and it has been answered.
hookGenerated == call.tool = "generate_hook" /\ result # NoResult

isSdkFeature(v) == \E i \in 1..Len(SDK_FEATURES) : v = Str(SDK_FEATURES[i])

\* C14 as stated: when hookName is omitted, for each of the nine features
\* the generated code exports a function named use{Feature} and the Usage
\* Example imports and calls that same name.
C14_DefaultHookNameConsistent ==
  (hookGenerated /\ isSdkFeature(call.args.feature) /\ call.args.hookName = Undefined) =>
    /\ result.kind = "return"
    /\ includes(result.text,
         "export function use" \o capitalize(call.args.feature.s) \o "(")
    /\ includes(result.text,
         "import { use" \o capitalize(call.args.feature.s) \o " } from './hooks/")
    /\ includes(result.text,
         "const hook = use" \o capitalize(call.args.feature.s) \o "();")

(* ------------------ properties: diagnose, rendering -------------------- *)

\* The position of an entry in the catalogue.
catalogueIndex(issue) == CHOOSE i \in 1..Len(knownIssues) : knownIssues[i] = issue

\* Some occurrence of a comes before some occurrence of b.
precedes(s, a, b) ==
  \E i \in 1..(Len(s) - Len(b) + 1) :
    SubSeq(s, i, i + Len(b) - 1) = b /\ includes(SubSeq(s, 1, i - 1), a)

\* String.prototype.endsWith(suffix)
endsWith(s, suffix) ==
  Len(suffix) <= Len(s) /\ SubSeq(s, Len(s) - Len(suffix) + 1, Len(s)) = suffix

\* The heading an entry is rendered under.
heading(issue) == "### " \o issue.title \o "\n"

\* The number of entry headings in a report.
headingCount(text) ==
  Cardinality({ i \in 1..(Len(text) - 4) : SubSeq(text, i, i + 4) = "\n### " })

\* C15: the relevant set is in catalogue order; the report has min(3, n)
\* entry headings, those of the first min(3, n) relevant entries in that
\* order; the fourth and later relevant entries are left out; the report
\* ends with the closing 'If none of these solutions work' note.
C15_FirstThreeInCatalogueOrder ==
  onMatchedPath =>
    /\ \A j \in 1..Len(relevantIssues) :
         /\ \E i \in 1..Len(knownIssues) : knownIssues[i] = relevantIssues[j]
         /\ j > 1 => catalogueIndex(relevantIssues[j - 1]) < catalogueIndex(relevantIssues[j])
    /\ headingCount(result.text) = (IF Len(relevantIssues) < 3 THEN Len(relevantIssues) ELSE 3)
    /\ \A j \in 1..Len(relevantIssues) :
         includes(result.text, heading(relevantIssues[j])) <=> j <= 3
    /\ \A j \in 2..Len(relevantIssues) :
         j <= 3 =>
           /\ precedes(result.text, heading(relevantIssues[j - 1]), heading(relevantIssues[j]))
           /\ ~precedes(result.text, heading(relevantIssues[j]), heading(relevantIssues[j - 1]))
    /\ endsWith(result.text,
         "\n---\n\nIf none of these solutions work, please provide more details about your setup (package versions, platform, full error message).")

\* A symptom with four relevant entries has been diagnosed; the report
\* shows the third and leaves the fourth out.
C15_Witness ==
  /\ onMatchedPath
  /\ Len(relevantIssues) = 4
  /\ includes(result.text, heading(relevantIssues[3]))
  /\ ~includes(result.text, heading(relevantIssues[4]))

\* The entry's lowercased title or one of its keywords contains the name.
namesFeature(issue, name) ==
  \/ includes(toLowerCase(issue.title), name)
  \/ \E k \in 1..Len(issue.symptoms) : includes(issue.symptoms[k], name)

\* The catalogue entries a lowercased symptom matches, in catalogue order.
candidates(lowered) ==
  SelectSeq(knownIssues, LAMBDA issue : foldedKeywordHit(issue, lowered))

\* The entries among some that name the feature, in the same order.
narrowedTo(entries, name) ==
  SelectSeq(entries, LAMBDA issue : namesFeature(issue, name))

\* The report shows exactly the first three of the entries among the others.
showsFirstThreeOf(text, entries, others) ==
  \A j \in 1..Len(others) :
    includes(text, heading(others[j])) <=>
      \E m \in 1..Len(entries) : m <= 3 /\ entries[m] = others[j]

\* The report is built from exactly these entries: they are the relevant set
\* and, of all candidates, the report shows their first three and no other.
builtFrom(entries, all) ==
  /\ relevantIssues = entries
  /\ result.kind = "return"
  /\ showsFirstThreeOf(result.text, entries, all)

\* C16: when a feature is supplied and some keyword-matched entry names it
\* in its lowercased title or in a keyword, the report is built from exactly
\* the keyword-matched entries that name it, up to the cap of three; the
\* keyword-matched entries that do not name it are left out.
C16_NarrowedToFeature ==
  (diagnosed /\ nonEmptyString(call.args.symptom) /\ nonEmptyString(call.args.feature)) =>
    LET all == candidates(loweredSymptom)
        narrowed == narrowedTo(all, call.args.feature.s)
    IN  Len(narrowed) > 0 => builtFrom(narrowed, all)

\* A symptom that matches several entries was diagnosed with the hint
\* 'camera': the report shows the camera entry and leaves the matched
\* push-token entry out.
C16_Witness ==
  /\ diagnosed
  /\ call.args.feature = Str("camera")
  /\ Len(matchedIssues) > 1
  /\ Len(relevantIssues) = 1
  /\ includes(result.text, "### Camera not capturing\n")
  /\ \E j \in 1..Len(matchedIssues) : matchedIssues[j].title = "Push token is null"
  /\ ~includes(result.text, "### Push token is null\n")

\* Every keyword of the catalogue is stored in lowercase.
keywordsStoredLowercase ==
  \A i \in 1..Len(knownIssues) :
    \A k \in 1..Len(knownIssues[i].symptoms) :
      knownIssues[i].symptoms[k] = toLowerCase(knownIssues[i].symptoms[k])

\* The entry is one of those the call matched.
isMatched(issue) == \E j \in 1..Len(matchedIssues) : matchedIssues[j] = issue

\* C17 as stated: every keyword of the catalogue is a lowercase string, and
\* an entry is a candidate for a symptom exactly when one of its keywords,
\* as stored, is a substring of the lowercased symptom.
C17_StoredKeywordsDecide ==
  (diagnosed /\ nonEmptyString(call.args.symptom)) =>
    LET lowered == loweredSymptom
    IN  /\ \A i \in 1..Len(knownIssues) :
             isMatched(knownIssues[i]) <=> keywordHit(knownIssues[i], lowered)
        /\ keywordsStoredLowercase

\* C17, amended: an entry is a candidate for a symptom exactly when one of
\* its keywords, lowercased, is a substring of the lowercased symptom
\* (containment, no word boundaries); the candidates keep catalogue order.
\* Four stored keywords contain capitals, so an entry can be a candidate
\* although none of its keywords as stored occurs in the lowercased symptom.
C17_FoldedKeywordsDecide ==
  (diagnosed /\ nonEmptyString(call.args.symptom)) =>
    LET lowered == loweredSymptom
    IN  /\ matchedIssues = candidates(lowered)
        /\ \A i \in 1..Len(knownIssues) :
             keywordHit(knownIssues[i], lowered) => isMatched(knownIssues[i])

\* 'takePicture returns null' has been diagnosed: the camera entry is a
\* candidate although none of its stored keywords occurs in the lowercased
\* symptom.
C17_Witness ==
  /\ diagnosed
  /\ call.args.symptom = Str("takePicture returns null")
  /\ \E j \in 1..Len(matchedIssues) :
       /\ matchedIssues[j].title = "Camera not capturing"
       /\ ~keywordHit(matchedIssues[j], loweredSymptom)

(* ----------------- properties: checkPermissions analysis --------------- *)

\* The answered check_permissions call passed both guards and was analysed:
\* a non-empty code string and one of the three features.
analysed ==
  /\ permissionsChecked
  /\ nonEmptyString(call.args.code)
  /\ call.args.feature \in { Str("push"), Str("camera"), Str("location") }

\* The protected operation of each permission-gated feature.
ProtectedOperation ==
  [ push |-> "getToken", camera |-> "takePicture", location |-> "getCurrentPosition" ]

\* The issue that names a protected operation.
protectedIssueText(m) ==
  "Protected method %" \o m \o "% is used without requesting permission first."

\* Array.prototype.reverse
reverse(xs) == [i \in 1..Len(xs) |-> xs[Len(xs) + 1 - i]]

\* The snippet with its lines in the opposite order.
linesReversed(code) == join(reverse(split(code, "\n")), "\n")

\* C18: the issue naming the protected operation m of the feature is in the
\* issues list (once, and in the report) if and only if the code contains
\* '.m(' and contains 'requestPermission' nowhere; the snippet with its
\* lines in the opposite order gets the same issues.
C18_ProtectedCallCoOccurrence ==
  analysed =>
    LET m == ProtectedOperation[call.args.feature.s]
        unprotected ==
          includes(call.args.code.s, "." \o m \o "(")
            /\ ~includes(call.args.code.s, "requestPermission")
    IN  /\ countNaming(analysis.issues, protectedIssueText(m)) = (IF unprotected THEN 1 ELSE 0)
        /\ countNaming(analysis.issues, "Protected method") = (IF unprotected THEN 1 ELSE 0)
        /\ result.kind = "return"
        /\ includes(result.text, protectedIssueText(m)) <=> unprotected
        /\ analyzePermissionPatterns(Str(linesReversed(call.args.code.s)),
                                     call.args.feature).analysis.issues
             = analysis.issues

\* A snippet that calls takePicture first and requests the permission on the
\* next line has been analysed for camera: no protected-call issue.
C18_Witness ==
  /\ analysed
  /\ call.args.feature = Str("camera")
  /\ call.args.code =
       Str("const photo = await appo.camera.takePicture();\nconst status = await appo.camera.requestPermission();")
  /\ countNaming(analysis.issues, "Protected method") = 0

\* C19: each of the six flags equals its own substring test on the code,
\* whatever the other flags are.
C19_FlagsAreOwnPredicates ==
  analysed =>
    LET code == call.args.code.s
    IN  /\ analysis.hasPermissionRequest <=> includes(code, "requestPermission")
        /\ analysis.hasStatusCheck <=>
             (includes(code, "permission") \/ includes(code, "status")
                \/ includes(code, "'granted'") \/ includes(code, "\"granted\""))
        /\ analysis.hasDeniedHandling <=>
             (includes(code, "'denied'") \/ includes(code, "\"denied\""))
        /\ analysis.hasUndeterminedHandling <=>
             (includes(code, "'undetermined'") \/ includes(code, "\"undetermined\"")
                \/ includes(code, "null"))
        /\ analysis.hasErrorHandling <=> (includes(code, "try") /\ includes(code, "catch"))
        /\ analysis.hasUserExplanation <=>
             \E marker \in { "modal", "Modal", "dialog", "Dialog", "alert", "confirm",
                             "explanation", "why", "permission needed" } :
               includes(code, marker)

\* A snippet that handles denied and has 'try' without 'catch' has been
\* analysed: denied handling is set, undetermined and error handling are not.
C19_Witness ==
  /\ analysed
  /\ includes(call.args.code.s, "try")
  /\ ~includes(call.args.code.s, "catch")
  /\ analysis.hasDeniedHandling
  /\ analysis.hasUserExplanation
  /\ ~analysis.hasUndeterminedHandling
  /\ ~analysis.hasErrorHandling
  /\ ~analysis.hasPermissionRequest

\* C20: the suggestions are the rationale suggestion iff hasUserExplanation
\* is false, the try/catch suggestion iff hasErrorHandling is false and the
\* undetermined-state suggestion iff hasUndeterminedHandling is false, in
\* that order and nothing else, so between 0 and 3 entries.
C20_SuggestionsFromThreeFlags ==
  analysed =>
    /\ analysis.suggestions =
         (IF analysis.hasUserExplanation THEN << >>
          ELSE << "Consider explaining to users WHY you need this permission before requesting it. This improves acceptance rates." >>)
         \o (IF analysis.hasErrorHandling THEN << >>
             ELSE << "Add try/catch blocks to handle potential errors during permission requests." >>)
         \o (IF analysis.hasUndeterminedHandling THEN << >>
             ELSE << "Handle the 'undetermined' state - this is the initial state before the user makes a choice." >>)
    /\ Len(analysis.suggestions) \in 0..3

\* A snippet without explanation marker and without 'null' but with try and
\* catch has been analysed: two suggestions, the rationale one first.
C20_Witness ==
  /\ analysed
  /\ ~analysis.hasUserExplanation
  /\ analysis.hasErrorHandling
  /\ ~analysis.hasUndeterminedHandling
  /\ Len(analysis.suggestions) = 2
  /\ startsWith(analysis.suggestions[1], "Consider explaining")
  /\ startsWith(analysis.suggestions[2], "Handle the 'undetermined' state")

(* ----------------------- the permission report ------------------------- *)

\* The call was a check_permissions call that was answered with a report:
\* both guards passed and the analysis ran to the end.
reported ==
  /\ analysed
  /\ result.kind = "return"
  /\ result.text \notin { MissingArgsMessage, invalidFeatureMessage }

\* The six checklist lines in their fixed order, each with a given mark.
checklist(m) ==
  "- [" \o m[1] \o "] Calls %requestPermission()%\n"
  \o "- [" \o m[2] \o "] Checks permission status\n"
  \o "- [" \o m[3] \o "] Handles 'denied' status\n"
  \o "- [" \o m[4] \o "] Handles initial/undetermined state\n"
  \o "- [" \o m[5] \o "] Has error handling\n"
  \o "- [" \o m[6] \o "] Explains why permission is needed\n"

\* "x" for a flag that is set, a blank for one that is not.
markOf(flag) == IF flag THEN "x" ELSE " "

flagsInOrder(a) ==
  << a.hasPermissionRequest, a.hasStatusCheck, a.hasDeniedHandling,
     a.hasUndeterminedHandling, a.hasErrorHandling, a.hasUserExplanation >>

\* The number of checklist lines in a report.
checklistLines(text) ==
  Cardinality({ i \in 1..(Len(text) - 4) :
                  SubSeq(text, i, i + 4) \in { "\n- [x", "\n- [ " } })

\* What C21 says of the part of a report above the recommended pattern.
aboveThePattern(text) ==
  /\ includes(text, checklist([i \in 1..6 |-> markOf(flagsInOrder(analysis)[i])]))
  /\ checklistLines(text) = 6
  /\ includes(text, "### Issues Found\n") <=> (Len(analysis.issues) > 0)
  /\ includes(text, "### Suggestions\n") <=> (Len(analysis.suggestions) > 0)

\* C21: a permission report lists the six checklist lines in the fixed order
\* (requestPermission, status check, denied, undetermined, error handling,
\* explanation) and no other, each ticked exactly when its flag is true; it
\* has an 'Issues Found' section exactly when the issues list is non-empty
\* and a 'Suggestions' section exactly when the suggestions list is
\* non-empty; it ends with the recommended pattern of the requested feature.
C21_ReportRendering ==
  reported =>
    LET pattern == "### Recommended Pattern\n\n%%%tsx\n"
                     \o getRecommendedPattern(call.args.feature.s) \o "\n%%%"
    IN  /\ endsWith(result.text, pattern)
        /\ aboveThePattern(SubSeq(result.text, 1, Len(result.text) - Len(pattern)))

\* A report with some items ticked and some not, an issue and a suggestion:
\* both optional sections are there.
C21_Witness ==
  /\ reported
  /\ analysis.hasPermissionRequest
  /\ ~analysis.hasErrorHandling
  /\ Len(analysis.issues) > 0
  /\ Len(analysis.suggestions) > 0
  /\ includes(result.text, "### Issues Found\n")

\* A report with no issue: the 'Issues Found' section is left out.
C21_NoIssuesSection ==
  /\ reported
  /\ Len(analysis.issues) = 0
  /\ ~includes(result.text, "### Issues Found\n")

(* --------------------------- the catalogue ----------------------------- *)

\* The number of places in a text where a line starts with the given words.
lineStarts(text, words) ==
  Cardinality({ i \in 1..(Len(text) - Len(words)) :
                  SubSeq(text, i, i + Len(words)) = "\n" \o words })

\* The smaller of two numbers.
min(a, b) == IF a < b THEN a ELSE b

\* C22: in every state each entry of knownIssues has at least one symptom
\* keyword, at least one cause and at least one solution; so in a catalogue
\* report every rendered entry has a 'Possible Causes' list and a
\* 'Solutions' list that start with an item.
C22_CatalogueEntriesComplete ==
  /\ \A i \in 1..Len(knownIssues) :
       /\ Len(knownIssues[i].symptoms) >= 1
       /\ Len(knownIssues[i].causes) >= 1
       /\ Len(knownIssues[i].solutions) >= 1
  /\ onMatchedPath =>
       LET shown == min(MaxShown, Len(relevantIssues))
       IN  /\ lineStarts(result.text, "**Possible Causes:**\n- ") = shown
           /\ lineStarts(result.text, "**Solutions:**\n- ") = shown

\* A catalogue report that renders more than one entry.
C22_Witness ==
  /\ onMatchedPath
  /\ Len(relevantIssues) >= 2
  /\ includes(result.text, "**Possible Causes:**\n- " \o relevantIssues[2].causes[1])

(* ------------------------------ the frame ------------------------------ *)

\* C23: whatever calls have been received, are in progress or have been
\* answered, knownIssues (its entries, their order, the keyword, cause and
\* solution lists of each) and featureApiMap are what they were at start.
C23_StaticTablesUnchanged ==
  /\ knownIssues = knownIssuesLiteral
  /\ featureApiMap = featureApiMapLiteral

\* A diagnose_issue call that matched catalogue entries and a
\* check_permissions call that was analysed have both been answered.
C23_Witness ==
  /\ \E a \in completed :
       /\ a.tool = "diagnose_issue"
       /\ a.out.kind = "return"
       /\ includes(a.out.text, "## Diagnosis Results")
  /\ \E b \in completed :
       /\ b.tool = "check_permissions"
       /\ b.out.kind = "return"
       /\ includes(b.out.text, "Permission Analysis")

(* ----------------------- the order of the guards ----------------------- *)

\* An argument that was left out or is the empty string.
missingOrEmpty(v) == v = Undefined \/ v = Str("")

\* The feature passes the look-up of check-permissions.ts:50.
featureFound(v) == lookupKind(featureApiMap, v) # "undefined"

\* C24: an answered check_permissions call whose code or feature is missing
\* or empty returns the 'Please provide both' message whatever the other
\* argument is, also when the feature is no permission feature (the missing
\* argument is reported, not the invalid feature); an analysis was made or a
\* report returned only when both arguments were there and the feature was
\* found.
C24_MissingArgumentsFirst ==
  permissionsChecked =>
    /\ (missingOrEmpty(call.args.code) \/ missingOrEmpty(call.args.feature)) =>
         result = Return(MissingArgsMessage)
    /\ (analysis # emptyAnalysis
          \/ (result.kind = "return" /\ includes(result.text, "Permission Analysis"))) =>
         /\ truthy(call.args.code)
         /\ truthy(call.args.feature)
         /\ featureFound(call.args.feature)

\* The code is missing and the feature is no permission feature: the
\* missing argument is what the answer reports.
C24_Witness ==
  /\ permissionsChecked
  /\ call.args.code = Undefined
  /\ call.args.feature = Str("bluetooth")
  /\ result = Return(MissingArgsMessage)

(* --------------------------- the issues list --------------------------- *)

\* The three issues a feature can get, in the order they are reported.
issueKinds(feature) ==
  << protectedIssueText(ProtectedOperation[feature]),
     "No %requestPermission()% call found for " \o feature \o ".",
     "No handling for 'denied' permission status. Users who deny permission won't see helpful feedback." >>

\* xs is ys with some of its elements left out, the others in place.
RECURSIVE isSubsequence(_, _)
isSubsequence(xs, ys) ==
  IF Len(xs) = 0 THEN TRUE
  ELSE IF Len(ys) = 0 THEN FALSE
  ELSE IF xs[1] = ys[1] THEN isSubsequence(Tail(xs), Tail(ys))
  ELSE isSubsequence(xs, Tail(ys))

\* C25: the issues of an analysed call are taken from [protected-call
\* issue, no-requestPermission issue, no-denied-handling issue] in that
\* order, none to three of them, none twice; the protected-call issue is
\* always followed at once by the no-requestPermission issue; the list is
\* empty exactly when hasPermissionRequest and hasDeniedHandling are both
\* true.
C25_IssuesListShape ==
  analysed =>
    LET kinds == issueKinds(call.args.feature.s)
        issues == analysis.issues
    IN  /\ isSubsequence(issues, kinds)
        /\ Len(issues) \in 0..3
        /\ \A i \in 1..Len(issues) :
             issues[i] = kinds[1] => (i < Len(issues) /\ issues[i + 1] = kinds[2])
        /\ (Len(issues) = 0) <=>
             (analysis.hasPermissionRequest /\ analysis.hasDeniedHandling)

\* All three issues are reported.
C25_Witness ==
  /\ analysed
  /\ Len(analysis.issues) = 3
  /\ analysis.issues[1] = protectedIssueText(ProtectedOperation[call.args.feature.s])

\* No issue is reported.
C25_NoIssue ==
  /\ analysed
  /\ analysis.hasPermissionRequest
  /\ analysis.hasDeniedHandling
  /\ analysis.issues = << >>

(* ------------------- the permission-gated features --------------------- *)

\* The elements of a list.
elements(xs) == { xs[i] : i \in 1..Len(xs) }

\* The pending request asked for a prompt and has been answered.
promptAnswered(name) ==
  call.tool = "prompts/get" /\ call.args.name = name /\ result # NoResult

\* The text of the one message of a prompt answer.
promptText == result.messages[1].content.text

\* C26: the keys of featureApiMap, the keys of the recommended-pattern
\* table, scaffold_feature's permissionFeatures and the enum of the
\* check_permissions input schema are each exactly push, camera and
\* location, each once; every entry of featureApiMap has exactly one
\* protected operation; and an integrate_feature prompt recommends
\* check_permissions exactly when its feature is one of those three.
C26_PermissionFeaturesAgree ==
  LET gated == { "push", "camera", "location" }
  IN  /\ elements(keysOf(featureApiMap)) = gated /\ Len(featureApiMap) = 3
      /\ elements(keysOf(patterns)) = gated /\ Len(patterns) = 3
      /\ elements(permissionFeatures) = gated /\ Len(permissionFeatures) = 3
      /\ elements(checkPermissionsFeatureEnum) = gated
      /\ Len(checkPermissionsFeatureEnum) = 3
      /\ \A i \in 1..Len(featureApiMap) : Len(featureApiMap[i].protectedMethods) = 1
      /\ (promptAnswered("integrate_feature") /\ result.kind = "return") =>
           (includes(promptText, "check_permissions")
              <=> call.args.arguments.feature \in { Str(f) : f \in gated })

\* The prompt for a permission-gated feature recommends check_permissions.
C26_Witness ==
  /\ promptAnswered("integrate_feature")
  /\ call.args.arguments.feature = Str("camera")
  /\ result.kind = "return"
  /\ includes(promptText, "- Use %check_permissions% tool to review permission handling")

\* The prompt for a feature that needs no permission does not.
C26_NotRecommended ==
  /\ promptAnswered("integrate_feature")
  /\ call.args.arguments.feature = Str("biometrics")
  /\ result.kind = "return"
  /\ ~includes(promptText, "check_permissions")

(* ------------------ the recommended pattern, analysed ------------------ *)

\* The analysed code is the recommended pattern of the requested feature.
ownPatternAnalysed ==
  /\ analysed
  /\ call.args.code = Str(getRecommendedPattern(call.args.feature.s))

\* C27 as stated: when the code is the recommended pattern shown for the
\* requested feature, all six checklist items are ticked and the report has
\* neither an 'Issues Found' section nor a 'Suggestions' section.
C27_RecommendedPatternPasses ==
  ownPatternAnalysed =>
    /\ \A i \in 1..6 : flagsInOrder(analysis)[i]
    /\ result.kind = "return"
    /\ includes(result.text, checklist([i \in 1..6 |-> "x"]))
    /\ ~includes(result.text, "### Issues Found\n")
    /\ ~includes(result.text, "### Suggestions\n")

(* ------------------------ the validation verdict ----------------------- *)

\* The pending request was a validate_setup call and it has been answered.
setupValidated == call.tool = "validate_setup" /\ result # NoResult

\* The answer is a validation report.
validationReported ==
  setupValidated /\ result.kind = "return" /\ result.text # InvalidPackageJson

\* The number of times x occurs in a list.
occurrences(xs, x) == Cardinality({ i \in 1..Len(xs) : xs[i] = x })

\* C28: whatever validate_setup was asked, isValid is false exactly when an
\* error was recorded; a report is headed 'Setup Validation Passed' exactly
\* when no error was recorded and 'Setup Validation Failed' otherwise,
\* whatever warnings and suggestions there are; a packageJson that
\* JSON.parse rejects gets the 'Invalid package.json' message alone, with
\* nothing recorded; a tsConfig that JSON.parse rejects adds the one
\* 'Could not parse tsconfig.json' warning, none of the tsconfig findings,
\* and the sample code is still validated.
C28_VerdictConsistent ==
  setupValidated =>
    /\ ~validation.isValid <=> (Len(validation.errors) > 0)
    /\ validationReported =>
         /\ includes(result.text, "Setup Validation Passed\n")
              <=> (Len(validation.errors) = 0)
         /\ includes(result.text, "Setup Validation Failed\n")
              <=> (Len(validation.errors) > 0)
    /\ ~JSONparse(call.args.packageJson).ok =>
         /\ result = Return(InvalidPackageJson)
         /\ validation = emptyValidation
    /\ (validationReported /\ truthy(call.args.tsConfig)
          /\ ~JSONparse(call.args.tsConfig).ok) =>
         /\ occurrences(validation.warnings, TsConfigParseWarning) = 1
         /\ includes(result.text, TsConfigParseWarning)
         /\ occurrences(validation.warnings, EsModuleInteropWarning) = 0
         /\ occurrences(validation.suggestions, StrictSuggestion) = 0
         /\ (isString(call.args.sampleCode) /\ includes(call.args.sampleCode.s, "window.appo")) =>
              occurrences(validation.warnings, WindowAppoWarning) = 1

\* The validation passed although a warning was recorded: the tsConfig
\* could not be parsed, and the sample code was validated after it.
C28_Witness ==
  /\ validationReported
  /\ call.args.tsConfig = Str("{bad")
  /\ call.args.sampleCode = Str("window.appo.camera.takePicture()")
  /\ validation.isValid
  /\ Len(validation.warnings) >= 2
  /\ includes(result.text, "Setup Validation Passed\n")

\* The validation failed.
C28_Failed ==
  /\ validationReported
  /\ ~validation.isValid
  /\ includes(result.text, "Setup Validation Failed\n")

\* The packageJson could not be parsed.
C28_InvalidPackageJson ==
  /\ setupValidated
  /\ call.args.packageJson = Str("{oops")
  /\ result = Return(InvalidPackageJson)

(* ------------------------- unknown resources --------------------------- *)

\* The URI is on one line.
oneLine(uri) == ~includes(uri, "\n") /\ ~includes(uri, "\r")

\* The URI is 'appo://' followed by a non-empty path of one or two segments.
wellFormed(uri) ==
  /\ startsWith(uri, "appo://")
  /\ Len(uri) > Len("appo://")
  /\ Len(split(slice(uri, Len("appo://")), "/")) <= 2

\* The segments of the path of a well-formed URI.
segments(uri) == split(slice(uri, Len("appo://")), "/")

\* The URI names no feature, or one that is none of the nine.
noKnownFeature(uri) ==
  \/ Len(segments(uri)) = 1
  \/ \A i \in 1..Len(SDK_FEATURES) : segments(uri)[2] # SDK_FEATURES[i]

\* The content is a string that starts with the given words.
textStarts(content, words) == isString(content) /\ startsWith(content.s, words)

\* C29 as stated: every read returns one content item that echoes the URI;
\* a URI that is not well-formed gets 'Unknown resource: <uri>'; a
\* well-formed URI whose type is none of api, examples, best-practices,
\* troubleshooting and overview gets 'Unknown resource type: <type>'; an api
\* or examples URI with an unknown or missing feature gets the 'No API
\* documentation found' or the 'No examples found' text.
C29_UnknownResourcesReported ==
  (resourceRead /\ oneLine(call.args.uri)) =>
    LET uri == call.args.uri
        content == result.contents[1].text
    IN  /\ result.kind = "return"
        /\ Len(result.contents) = 1
        /\ result.contents[1].uri = uri
        /\ ~wellFormed(uri) => content = Str("Unknown resource: " \o uri)
        /\ wellFormed(uri) =>
             /\ segments(uri)[1] \notin
                  { "api", "examples", "best-practices", "troubleshooting", "overview" } =>
                  content = Str("Unknown resource type: " \o segments(uri)[1])
             /\ (segments(uri)[1] = "api" /\ noKnownFeature(uri)) =>
                  textStarts(content, "No API documentation found")
             /\ (segments(uri)[1] = "examples" /\ noKnownFeature(uri)) =>
                  textStarts(content, "No examples found")

(* ------------------------- the scaffold's files ------------------------ *)

\* The pending request was a scaffold_feature call for one of the nine
\* features and it has been answered.
scaffolded ==
  /\ call.tool = "scaffold_feature"
  /\ result # NoResult
  /\ isSdkFeature(call.args.feature)

\* A path without its extension.
withoutExtension(path, extension) ==
  IF endsWith(path, extension) THEN SubSeq(path, 1, Len(path) - Len(extension)) ELSE path

\* C30 as stated: the scaffold lists the types file, the hook file and the
\* component file in that order; the test file is added as a fourth exactly
\* when includeTests is true or omitted; the 'Permission Handling' section
\* is there exactly when the feature is push, camera or location; and the
\* import shown in Integration Steps imports the component from the
\* component file listed under Files to Create.
C30_ScaffoldFilesAndImport ==
  scaffolded =>
    LET feature == call.args.feature.s
        directory == IF call.args.directory = Undefined THEN "src" ELSE call.args.directory.s
        hookName == "use" \o capitalize(feature)
        componentName == capitalize(feature) \o "Component"
        withTests == call.args.includeTests \in { Undefined, Bool(TRUE) }
    IN  /\ result.kind = "return"
        /\ Len(files) = (IF withTests THEN 4 ELSE 3)
        /\ files[1].path = directory \o "/types/" \o feature \o ".ts"
        /\ files[2].path = directory \o "/hooks/" \o hookName \o ".ts"
        /\ files[3].path = directory \o "/components/" \o componentName \o ".tsx"
        /\ withTests => files[4].path = directory \o "/__tests__/" \o hookName \o ".test.ts"
        /\ \A i \in 1..Len(files) : includes(result.text, "### " \o files[i].path \o "\n")
        /\ includes(result.text, "\n## Permission Handling\n")
             <=> feature \in { "push", "camera", "location" }
        /\ includes(result.text,
                    "import { " \o componentName \o " } from './"
                      \o withoutExtension(files[3].path, ".tsx") \o "';")
====
